---- MODULE Spec2Model ----
(***************************************************************************)
(* Model of the A2A audit agent: the deliberation protocol of              *)
(* AdvancedAuditAgent (core_agent_engine.py), its grade extractor, its     *)
(* per-entity context cache (conversation_memory) and the GUI threads of   *)
(* main_gui_interface.py that drive it.                                    *)
(*                                                                         *)
(* Texts are sequences of symbols.  The symbol "G" stands for the two      *)
(* characters of the Korean word for "grade" that the extractor looks for; *)
(* "a" is a lower-case letter A, "x" any other character.                  *)
(***************************************************************************)
EXTENDS Integers, Sequences, FiniteSets, TLC

\* ---------------------------------------------------------------- bounds
\* longest text the grade extractor is applied to in SpecGrade
MaxTextLen == 4
\* how many backend calls of one run may answer something else than the
\* default text (an error, or another text)
MaxOddResponses == 2
\* last instant of the clock in the cache specifications
MaxTime == 3
\* operations each thread performs in SpecConc
MaxOps == 2

\* ------------------------------------------------------- program constants
\* response[:200] kept in the deliberation log
LogResponseLen == 200
\* v[:150] of another persona's opinion shown in the rebuttal prompt
RebuttalExcerptLen == 150
\* opinion[:300] shown in the aggregation prompt
ConsensusExcerptLen == 300
\* confidence_level of the three topics
RatioConfidence == 85
FraudConfidence == 80
FinalConfidence == 90

\* ------------------------------------------------------------------ texts
Min(a, b) == IF a < b THEN a ELSE b

Symbols == {"S", "A", "B", "C", "D", "a", "G", " ", ":", "x"}

\* Python's  pat in text
Contains(text, pat) ==
    \E i \in 1..(Len(text) - Len(pat) + 1) : SubSeq(text, i, i + Len(pat) - 1) = pat

\* Python's  text[:n]
Prefix(text, n) == SubSeq(text, 1, Min(n, Len(text)))

\* Python's  text.upper()
Upper(text) == [i \in 1..Len(text) |-> IF text[i] = "a" THEN "A" ELSE text[i]]

Ellipsis == <<"...">>

\* ------------------------------------------------------- grade extractor
GradeOrder == <<"S", "A", "B", "C", "D">>

\* f"{grade}G" , f"G {grade}" , f"G:{grade}"
GradePatterns(grade) == << <<grade, "G">>, <<"G", " ", grade>>, <<"G", ":", grade>> >>

MatchesGradeUpper(consensus, grade) ==
    \E k \in 1..3 : Contains(Upper(consensus), GradePatterns(grade)[k])

\* the condition of the if inside the loop: tested on consensus itself
\* (consensus_upper is computed and never used)
MatchesGrade(consensus, grade) ==
    \E k \in 1..3 : Contains(consensus, GradePatterns(grade)[k])

RECURSIVE GradeScan(_, _)
GradeScan(consensus, k) ==
    IF k > Len(GradeOrder) THEN "B"
    ELSE IF MatchesGrade(consensus, GradeOrder[k]) THEN GradeOrder[k]
    ELSE GradeScan(consensus, k + 1)

OnlyColonPattern(consensus) ==
    IF \E k \in 1..5 : Contains(consensus, <<"G", ":", GradeOrder[k]>>)
    THEN GradeOrder[CHOOSE k \in 1..5 :
                       /\ Contains(consensus, <<"G", ":", GradeOrder[k]>>)
                       /\ \A j \in 1..(k - 1) : ~Contains(consensus, <<"G", ":", GradeOrder[j]>>)]
    ELSE "B"

extract_grade_from_consensus(consensus) == GradeScan(consensus, 1)

\* ------------------------------------------------------- inference backend
\* self.agents, in insertion order
Agents == <<"coordinator", "financial_analyst", "fraud_detective">>
AgentSet == {Agents[i] : i \in 1..Len(Agents)}

ApiErrorText == <<"API_ERROR">>
ConnErrorText == <<"CONN_ERROR">>
IsErrorMarker(text) == text \in {ApiErrorText, ConnErrorText}

\* what the backend does with one request
DefaultOutcome == [kind |-> "ok", text |-> <<"A", "G">>]
OddOutcomes ==
    { [kind |-> "ok", text |-> <<"G", ":", "C">>],
      [kind |-> "ok", text |-> <<"G", " ", "A">>],
      [kind |-> "status", text |-> <<>>],
      [kind |-> "conn", text |-> <<>>] }
Outcomes(budget) == {DefaultOutcome} \cup (IF budget > 0 THEN OddOutcomes ELSE {})
Cost(outcome) == IF outcome = DefaultOutcome THEN 0 ELSE 1

call_ollama_raising(model_key, outcome) ==
    IF model_key \notin AgentSet \/ outcome.kind # "ok"
    THEN [raised |-> TRUE, text |-> <<>>]
    ELSE [raised |-> FALSE, text |-> outcome.text]

\* self.agents[model_key] raises for an unknown key; every failure of the
\* request itself is turned into a string
call_ollama(model_key, outcome) ==
    IF model_key \notin AgentSet THEN [raised |-> TRUE, text |-> <<>>]
    ELSE IF outcome.kind = "ok" THEN [raised |-> FALSE, text |-> outcome.text]
    ELSE IF outcome.kind = "status" THEN [raised |-> FALSE, text |-> ApiErrorText]
    ELSE [raised |-> FALSE, text |-> ConnErrorText]

\* ------------------------------------------------------------ entities
KnownCompany == "E1"
SuffixCompany == "E2"
\* a name that contains the name of a known company (삼성전자서비스)
LongCompany == "E1corp"
Entities == {KnownCompany, SuffixCompany}
NoCompany == "none"
None == [none |-> TRUE]

\* a request is a sequence of words: an entity name or another word "w"
Requests == { <<KnownCompany>>, <<SuffixCompany>>, <<SuffixCompany, KnownCompany>>, <<"w">> }

FirstWordIn(request, names) ==
    request[CHOOSE i \in 1..Len(request) :
               /\ request[i] \in names
               /\ \A j \in 1..(i - 1) : request[j] \notin names]

\* the patterns are tried in order and the first pattern with a match wins:
\* the list of known companies, then the names with a company suffix
\* (group 1 of the first pattern is the known name, also inside a longer name)
extract_company_from_request(request) ==
    IF \E i \in 1..Len(request) : request[i] \in {KnownCompany, LongCompany}
    THEN KnownCompany
    ELSE IF \E i \in 1..Len(request) : request[i] = SuffixCompany
    THEN FirstWordIn(request, {SuffixCompany})
    ELSE NoCompany

\* the callers that run autonomous_settlement_processing: a direct call, or
\* _handle_full_analysis_request of the conversation handler
EngineCallers == {"autonomous", "handler"}

\* ------------------------------------------------------------------ state
VARIABLES
    discussion_log,        \* self.discussion_log
    conversation_memory,   \* self.conversation_memory: key -> entry
    slots,                 \* the keys of that dict in insertion order
    now,                   \* datetime.now()
    pc,                    \* position of the analysis thread
    caller,                \* who runs the analysis: "autonomous", "gui"
    run,                   \* locals of the analysis function
    disc,                  \* locals of the running _conduct_* function
    inflight,              \* the backend request being waited for
    result,                \* what the analysis returned
    calls,                 \* every backend request so far, in issue order
    oddLeft,               \* odd backend answers still allowed
    lastOp,                \* the last cache operation of the sequential caller
    got,                   \* what its last get returned
    th,                    \* the threads of SpecConc
    gui,                   \* self.current_company, self.is_analyzing and the search thread
    extractor,             \* a text and the grade extracted from it (SpecGrade)
    session,               \* the SmartConversationHandler and the query it is serving
    calc                   \* the arguments and the value of one call of a pure function

vars == <<discussion_log, conversation_memory, slots, now, pc, caller, run, disc,
          inflight, result, calls, oddLeft, lastOp, got, th, gui, extractor, session, calc>>

engineVars == <<pc, caller, run, disc, inflight, result, calls, oddLeft, discussion_log>>
cacheVars == <<conversation_memory, slots>>
otherVars == <<lastOp, got, th, extractor>>

\* ------------------------------------------------------------- the dict
EmptyDict == [k \in {} |-> None]

DictSet(mem, k, v) == [x \in (DOMAIN mem) \cup {k} |-> IF x = k THEN v ELSE mem[x]]
SlotsSet(mem, sl, k) == IF k \in DOMAIN mem THEN sl ELSE Append(sl, k)
DictDel(mem, k) == [x \in (DOMAIN mem) \ {k} |-> mem[x]]
SlotsDel(sl, k) == SelectSeq(sl, LAMBDA x : x # k)

\* -------------------------------------------------------- context cache
save_analysis_context_merging(mem, company_name, analysis_data, t, log) ==
    IF company_name \in DOMAIN mem
    THEN [mem[company_name] EXCEPT !.analysis_data = analysis_data,
                                   !.ratios = analysis_data.ratios]
    ELSE [timestamp |-> t, analysis_data |-> analysis_data,
          ratios |-> analysis_data.ratios,
          financial_data |-> analysis_data.financial_data,
          cash_flow_data |-> analysis_data.cash_flow_data,
          a2a_discussion_log |-> log]

\* the entry save_analysis_context stores under company_name
save_analysis_context(mem, company_name, analysis_data, t, log) ==
    [timestamp |-> t, analysis_data |-> analysis_data,
     ratios |-> analysis_data.ratios,
     financial_data |-> analysis_data.financial_data,
     cash_flow_data |-> analysis_data.cash_flow_data,
     a2a_discussion_log |-> log]

get_analysis_context(mem, company_name) ==
    IF company_name \in DOMAIN mem THEN mem[company_name] ELSE None

\* ------------------------------------------------------- filing data
EmptyData == [owner |-> NoCompany, empty |-> TRUE]
Filing(corp) == [owner |-> corp, empty |-> FALSE]

\* the six ratios are computed from financial_data alone
calculate_basic_ratios(financial_data) == [from |-> financial_data]
calculate_basic_fraud_indicators(financial_data, cash_flow_data) ==
    [from |-> financial_data, cash |-> cash_flow_data]

NoRun == [company_name |-> NoCompany, company_info |-> None, financial_data |-> None,
          cash_flow_data |-> None, multi_year_data |-> None, ratios |-> None,
          fraud_ratios |-> None, final_opinion |-> None, analysis_data |-> None]

\* ------------------------------------------------------- deliberation
Topics == {"ratio", "fraud", "final"}
NoDisc == [topic |-> "none", phase |-> "none", idx |-> 0, opinions |-> EmptyDict]
NoCall == [agent |-> "none", prompt |-> None, logged |-> FALSE]
Pending == <<"PENDING">>

\* only _conduct_ratio_discussion has the second loop
TopicHasRebuttal(topic) == topic = "ratio"

TopicConfidence(topic) ==
    IF topic = "ratio" THEN RatioConfidence
    ELSE IF topic = "fraud" THEN FraudConfidence
    ELSE FinalConfidence

StartTopic(topic) == [topic |-> topic, phase |-> "opinion", idx |-> 1, opinions |-> EmptyDict]

\* what the topic's first prompt is built from
TopicSubject(topic, r) ==
    IF topic = "ratio" THEN r.ratios
    ELSE IF topic = "fraud" THEN r.fraud_ratios
    ELSE [investment_grade |-> r.ratios.A2A_grade, risk_grade |-> r.fraud_ratios.A2A_grade]

OpinionPrompt(topic, r) == [kind |-> "opinion", topic |-> topic, subject |-> TopicSubject(topic, r), shown |-> <<>>]

RECURSIVE Excerpts(_, _, _, _)
\* [f"{name}: {v[:n]}..." for k, v in opinions.items() if k != skip]
Excerpts(opinions, skip, n, i) ==
    IF i > Len(Agents) THEN <<>>
    ELSE (IF Agents[i] \in DOMAIN opinions /\ Agents[i] # skip
          THEN << [speaker |-> Agents[i], text |-> Prefix(opinions[Agents[i]], n) \o Ellipsis] >>
          ELSE <<>>) \o Excerpts(opinions, skip, n, i + 1)

RebuttalPrompt(topic, opinions, agent_key) ==
    [kind |-> "rebuttal", topic |-> topic, subject |-> None,
     shown |-> Excerpts(opinions, agent_key, RebuttalExcerptLen, 1)]

ConsensusPromptWithoutErrors(topic, opinions) ==
    [kind |-> "consensus", topic |-> topic, subject |-> None,
     shown |-> Excerpts([k \in {a \in DOMAIN opinions : ~IsErrorMarker(opinions[a])} |-> opinions[k]],
                        "nobody", ConsensusExcerptLen, 1)]

\* _reach_consensus: one line per item of opinions, error markers included
ConsensusPrompt(topic, opinions) ==
    [kind |-> "consensus", topic |-> topic, subject |-> None,
     shown |-> Excerpts(opinions, "nobody", ConsensusExcerptLen, 1)]

\* _call_agent_with_persona up to the request: the log gets its placeholder
LogAppend(log, agent_key, prompt) ==
    Append(log, [speaker |-> agent_key, prompt |-> [kind |-> prompt.kind, topic |-> prompt.topic],
                 response |-> Pending])

\* _call_agent_with_persona after the request: the last entry gets the response
LogUpdate(log, response) ==
    IF log # <<>>
    THEN [log EXCEPT ![Len(log)].response = Prefix(response, LogResponseLen) \o Ellipsis]
    ELSE log

CallRecord(d, agent_key) ==
    [topic |-> d.topic, phase |-> d.phase, agent |-> agent_key, status |-> "inflight", text |-> <<>>]

CallDone(cs, outcome, response) ==
    [cs EXCEPT ![Len(cs)].status = IF outcome.kind = "ok" THEN "ok" ELSE "failed",
               ![Len(cs)].text = response]

\* ------------------------------------------------------------ initial state
NoOp == [name |-> "none", key |-> NoCompany, hours |-> 0, data |-> None, before |-> EmptyDict, at |-> 0]
NoText == [text |-> <<>>, grade |-> "none"]
NoGui == [current_company |-> NoCompany, is_analyzing |-> FALSE, searching |-> NoCompany]
\* SmartConversationHandler.__init__: no company, no history; no query served yet
NoSession == [current_company |-> NoCompany, history |-> <<>>, user_input |-> <<>>,
              query_type |-> "none", response |-> None]
NoCalc == [fn |-> "none", args |-> None, done |-> FALSE, value |-> None]

InitEngine ==
    /\ discussion_log = <<>>
    /\ conversation_memory = EmptyDict
    /\ slots = <<>>
    /\ now = 0
    /\ pc = "idle"
    /\ caller = "none"
    /\ run = NoRun
    /\ disc = NoDisc
    /\ inflight = NoCall
    /\ result = None
    /\ calls = <<>>
    /\ oddLeft = MaxOddResponses

Init ==
    /\ InitEngine
    /\ lastOp = NoOp
    /\ got = None
    /\ th = <<>>
    /\ gui = NoGui
    /\ extractor = NoText
    /\ session = NoSession
    /\ calc = NoCalc

\* ------------------------------------------- autonomous_settlement_processing
\* what the except clause around the whole run returns
RunError == [error |-> "exception"]

\* steps 1: the company name is taken from the request
AutonomousStart(request) ==
    /\ pc = "idle"
    /\ caller' = "autonomous"
    /\ LET company_name == extract_company_from_request(request) IN
         IF company_name = NoCompany
         THEN /\ pc' = "error"
              /\ result' = [error |-> "no_company"]
              /\ run' = run
         ELSE /\ pc' = "search"
              /\ result' = result
              /\ run' = [run EXCEPT !.company_name = company_name]
    /\ UNCHANGED <<discussion_log, disc, inflight, calls, oddLeft, cacheVars, now, otherVars, gui, session, calc>>

AutonomousSearchCachingFailure(found) ==
    /\ pc = "search"
    /\ caller \in EngineCallers
    /\ IF ~found
       THEN /\ pc' = "error"
            /\ result' = [error |-> "not_found"]
            /\ run' = run
            /\ conversation_memory' = DictDel(conversation_memory, run.company_name)
            /\ slots' = SlotsDel(slots, run.company_name)
       ELSE /\ pc' = "fetch"
            /\ result' = result
            /\ run' = [run EXCEPT !.company_info = [corp_name |-> run.company_name,
                                                    corp_code |-> run.company_name]]
            /\ UNCHANGED cacheVars
    /\ UNCHANGED <<caller, discussion_log, disc, inflight, calls, oddLeft, now, otherVars, gui, session, calc>>

\* step 2: search_company_dart; the first candidate stands for the company
AutonomousSearch(found) ==
    /\ pc = "search"
    /\ caller \in EngineCallers
    /\ IF ~found
       THEN /\ pc' = "error"
            /\ result' = [error |-> "not_found"]
            /\ run' = run
       ELSE /\ pc' = "fetch"
            /\ result' = result
            /\ run' = [run EXCEPT !.company_info = [corp_name |-> run.company_name,
                                                    corp_code |-> run.company_name]]
    /\ UNCHANGED <<caller, discussion_log, disc, inflight, calls, oddLeft, cacheVars, now, otherVars, gui, session, calc>>

\* get_financial_statements, get_cash_flow_statement, get_multi_year_financials
\* (each gives {} when the source fails), then calculate_comprehensive_ratios
\* up to its first backend request
Fetch(fin_ok, cash_ok) ==
    /\ pc = "fetch"
    /\ LET financial_data == IF fin_ok THEN Filing(run.company_info.corp_code) ELSE EmptyData
           cash_flow_data == IF cash_ok THEN Filing(run.company_info.corp_code) ELSE EmptyData
       IN run' = [run EXCEPT !.financial_data = financial_data,
                             !.cash_flow_data = cash_flow_data,
                             !.multi_year_data = financial_data,
                             !.ratios = calculate_basic_ratios(financial_data)]
    /\ disc' = StartTopic("ratio")
    /\ pc' = "issue"
    /\ UNCHANGED <<caller, discussion_log, inflight, result, calls, oddLeft, cacheVars, now, otherVars, gui, session, calc>>

\* ------------------------------------------------------- the three rounds
\* a persona is asked: _call_agent_with_persona up to the blocking request
PersonaIssue(prompt) ==
    LET agent_key == Agents[disc.idx] IN
    /\ discussion_log' = LogAppend(discussion_log, agent_key, prompt)
    /\ inflight' = [agent |-> agent_key, prompt |-> prompt, logged |-> TRUE]
    /\ calls' = Append(calls, CallRecord(disc, agent_key))
    /\ pc' = "wait"
    /\ UNCHANGED <<caller, run, disc, result, oddLeft, cacheVars, now, otherVars, gui, session, calc>>

OpinionIssue ==
    /\ pc = "issue"
    /\ disc.phase = "opinion"
    /\ PersonaIssue(OpinionPrompt(disc.topic, run))

RebuttalIssue ==
    /\ pc = "issue"
    /\ disc.phase = "rebuttal"
    /\ PersonaIssue(RebuttalPrompt(disc.topic, disc.opinions, Agents[disc.idx]))

\* the request returns: the log entry is completed and the opinion stored
PersonaReturn(outcome, nextDisc) ==
    LET r == call_ollama(inflight.agent, outcome) IN
    /\ oddLeft' = oddLeft - Cost(outcome)
    /\ inflight' = NoCall
    /\ IF r.raised
       THEN /\ pc' = "error"
            /\ result' = RunError
            /\ calls' = [calls EXCEPT ![Len(calls)].status = "raised"]
            /\ UNCHANGED <<discussion_log, disc>>
       ELSE /\ pc' = "issue"
            /\ result' = result
            /\ calls' = CallDone(calls, outcome, r.text)
            /\ discussion_log' = LogUpdate(discussion_log, r.text)
            /\ disc' = [nextDisc EXCEPT !.opinions = DictSet(disc.opinions, inflight.agent, r.text)]
    /\ UNCHANGED <<caller, run, cacheVars, now, otherVars, gui, session, calc>>

AfterOpinionSkippingLast(d) ==
    IF d.idx < Len(Agents) - 1 THEN [d EXCEPT !.idx = d.idx + 1]
    ELSE IF TopicHasRebuttal(d.topic) THEN [d EXCEPT !.phase = "rebuttal", !.idx = 1]
    ELSE [d EXCEPT !.phase = "consensus", !.idx = 0]

\* the end of one pass of the opinion loop
AfterOpinion(d) ==
    IF d.idx < Len(Agents) THEN [d EXCEPT !.idx = d.idx + 1]
    ELSE IF TopicHasRebuttal(d.topic) THEN [d EXCEPT !.phase = "rebuttal", !.idx = 1]
    ELSE [d EXCEPT !.phase = "consensus", !.idx = 0]

\* the end of one pass of the rebuttal loop
AfterRebuttal(d) ==
    IF d.idx < Len(Agents) THEN [d EXCEPT !.idx = d.idx + 1]
    ELSE [d EXCEPT !.phase = "consensus", !.idx = 0]

OpinionReturn(outcome) ==
    /\ pc = "wait"
    /\ disc.phase = "opinion"
    /\ PersonaReturn(outcome, AfterOpinion(disc))

RebuttalReturn(outcome) ==
    /\ pc = "wait"
    /\ disc.phase = "rebuttal"
    /\ PersonaReturn(outcome, AfterRebuttal(disc))

\* _reach_consensus: the coordinator is asked directly through call_ollama
ConsensusIssue ==
    /\ pc = "issue"
    /\ disc.phase = "consensus"
    /\ inflight' = [agent |-> "coordinator", prompt |-> ConsensusPrompt(disc.topic, disc.opinions),
                    logged |-> FALSE]
    /\ calls' = Append(calls, CallRecord(disc, "coordinator"))
    /\ pc' = "wait"
    /\ UNCHANGED <<caller, run, disc, result, oddLeft, discussion_log, cacheVars, now, otherVars, gui, session, calc>>

TopicGradeAlwaysExtracted(topic, final_consensus, r) ==
    extract_grade_from_consensus(final_consensus)

\* the grade a topic reports: extracted from the consensus text for the two
\* grading topics, copied from the ratio topic for the final opinion
TopicGrade(topic, final_consensus, r) ==
    IF topic = "final" THEN r.ratios.A2A_grade
    ELSE extract_grade_from_consensus(final_consensus)

\* the dict a _conduct_* function returns
TopicResult(topic, final_consensus, r) ==
    [final_consensus |-> final_consensus,
     grade |-> TopicGrade(topic, final_consensus, r),
     confidence_level |-> TopicConfidence(topic)]

\* enhanced_ratios / enhanced_fraud_ratios: the basic values plus the A2A keys
Enhance(basic, res) ==
    [basic |-> basic, A2A_grade |-> res.grade, A2A_consensus |-> res.final_consensus,
     A2A_confidence |-> res.confidence_level]

\* the aggregation returns; the caller goes on to its next step
ConsensusReturn(outcome) ==
    /\ pc = "wait"
    /\ disc.phase = "consensus"
    /\ oddLeft' = oddLeft - Cost(outcome)
    /\ inflight' = NoCall
    /\ LET r == call_ollama(inflight.agent, outcome)
           res == TopicResult(disc.topic, r.text, run)
       IN IF r.raised
          THEN /\ pc' = "error"
               /\ result' = RunError
               /\ calls' = [calls EXCEPT ![Len(calls)].status = "raised"]
               /\ UNCHANGED <<run, disc>>
          ELSE /\ calls' = CallDone(calls, outcome, r.text)
               /\ result' = result
               /\ IF disc.topic = "ratio"
                  THEN /\ run' = [run EXCEPT !.ratios = Enhance(run.ratios, res),
                                             !.fraud_ratios = calculate_basic_fraud_indicators(
                                                                  run.financial_data, run.cash_flow_data)]
                       /\ disc' = StartTopic("fraud")
                       /\ pc' = "issue"
                  ELSE IF disc.topic = "fraud"
                  THEN /\ run' = [run EXCEPT !.fraud_ratios = Enhance(run.fraud_ratios, res)]
                       /\ IF caller \in EngineCallers
                          THEN disc' = StartTopic("final") /\ pc' = "issue"
                          ELSE /\ disc' = NoDisc
                               /\ pc' = IF caller = "gui" THEN "gui_save" ELSE "fraud_reply"
                  ELSE /\ run' = [run EXCEPT !.final_opinion = res]
                       /\ disc' = NoDisc
                       /\ pc' = "save"
    /\ UNCHANGED <<caller, discussion_log, cacheVars, now, otherVars, gui, session, calc>>

\* step 6: analysis_data, save_analysis_context(company_name, ...) and the result
AnalysisData(company, r) ==
    [company |-> company, company_info |-> r.company_info,
     financial_data |-> r.financial_data, cash_flow_data |-> r.cash_flow_data,
     multi_year_data |-> r.multi_year_data, ratios |-> r.ratios,
     fraud_ratios |-> r.fraud_ratios, final_a2a_opinion |-> r.final_opinion]

AutonomousSave ==
    /\ pc = "save"
    /\ caller \in EngineCallers
    /\ LET analysis_data == AnalysisData(run.company_name, run) IN
         /\ conversation_memory' =
                DictSet(conversation_memory, run.company_name,
                        save_analysis_context(conversation_memory, run.company_name,
                                              analysis_data, now, discussion_log))
         /\ slots' = SlotsSet(conversation_memory, slots, run.company_name)
         /\ result' = [analysis_complete |-> TRUE, company |-> run.company_name,
                       final_analysis |-> run.final_opinion.final_consensus,
                       investment_grade |-> run.ratios.A2A_grade,
                       risk_grade |-> run.fraud_ratios.A2A_grade,
                       data |-> analysis_data,
                       discussion_log_count |-> Len(discussion_log)]
    /\ pc' = "done"
    /\ UNCHANGED <<caller, run, disc, inflight, calls, oddLeft, discussion_log, now, otherVars, gui, session, calc>>

Next ==
    \/ \E request \in Requests : AutonomousStart(request)
    \/ \E found \in BOOLEAN : AutonomousSearch(found)
    \/ \E fin_ok, cash_ok \in BOOLEAN : Fetch(fin_ok, cash_ok)
    \/ OpinionIssue
    \/ \E outcome \in Outcomes(oddLeft) : OpinionReturn(outcome)
    \/ RebuttalIssue
    \/ \E outcome \in Outcomes(oddLeft) : RebuttalReturn(outcome)
    \/ ConsensusIssue
    \/ \E outcome \in Outcomes(oddLeft) : ConsensusReturn(outcome)
    \/ AutonomousSave

Spec == Init /\ [][Next]_vars

\* the analysis thread is never suspended for ever, and every request to the
\* backend returns or times out (requests.post(..., timeout=180))
FairSpec == Spec /\ WF_vars(Next)

\* =================================================================== claims
Completed(c) == c.status \in {"ok", "failed"}
CallsOf(topic, phase, agent_key) ==
    {i \in 1..Len(calls) : calls[i].topic = topic /\ calls[i].phase = phase /\ calls[i].agent = agent_key}
ConsensusCalls(topic) == {i \in 1..Len(calls) : calls[i].topic = topic /\ calls[i].phase = "consensus"}
TopicFinished(topic) == \E j \in ConsensusCalls(topic) : Completed(calls[j])
TopicFailures(topic) == {i \in 1..Len(calls) : calls[i].topic = topic /\ calls[i].status = "failed"}
ConfidenceOf(topic) ==
    IF topic = "ratio" THEN run.ratios.A2A_confidence
    ELSE IF topic = "fraud" THEN run.fraud_ratios.A2A_confidence
    ELSE run.final_opinion.confidence_level

\* C1: within a topic, a rebuttal request is issued only after every persona's
\* opinion request has completed (with a response or an error marker), and the
\* aggregation request is issued only after every persona request of the topic
\* has completed; in the ratio-grading topic that includes one completed
\* rebuttal request of every persona.
C1_RoundsInOrder ==
    \A j \in 1..Len(calls) :
        /\ calls[j].phase = "rebuttal" =>
              \A a \in AgentSet :
                  \E i \in CallsOf(calls[j].topic, "opinion", a) : i < j /\ Completed(calls[i])
        /\ calls[j].phase = "consensus" =>
              /\ \A i \in 1..Len(calls) :
                    (calls[i].topic = calls[j].topic /\ calls[i].phase # "consensus")
                        => (i < j /\ Completed(calls[i]))
              /\ \A a \in AgentSet :
                    \E i \in CallsOf(calls[j].topic, "opinion", a) : i < j
              /\ calls[j].topic = "ratio" =>
                    \A a \in AgentSet : \E i \in CallsOf("ratio", "rebuttal", a) : i < j

\* C1 witness: a ratio topic whose aggregation request was issued after an
\* opinion request and a rebuttal request had failed
C1_Witness ==
    /\ ConsensusCalls("ratio") # {}
    /\ \E i, k \in TopicFailures("ratio") : calls[i].phase = "opinion" /\ calls[k].phase = "rebuttal"

\* C2: in each of the three topics every persona is issued exactly one opinion
\* prompt and exactly one rebuttal prompt before the single aggregation request.
C2_EveryTopicHasBothRounds ==
    \A t \in Topics :
        /\ Cardinality(ConsensusCalls(t)) <= 1
        /\ \A j \in ConsensusCalls(t) : \A a \in AgentSet :
              /\ Cardinality({i \in CallsOf(t, "opinion", a) : i < j}) = 1
              /\ Cardinality({i \in CallsOf(t, "rebuttal", a) : i < j}) = 1

\* C3: a failed request is replaced by an error-marker string and never stops
\* the run: every started topic eventually completes its aggregation request,
\* and a run that has found its company eventually returns a complete result
\* holding the results of all three topics.
C3_FailuresNeverStopTheRun ==
    /\ [](\A i \in 1..Len(calls) :
             /\ calls[i].status # "raised"
             /\ calls[i].status = "failed" => IsErrorMarker(calls[i].text))
    /\ \A t \in Topics : (disc.topic = t) ~> TopicFinished(t)
    /\ (pc = "fetch") ~> (pc = "done" /\ \A t \in Topics : TopicFinished(t))

\* C3 witness: a finished run in which requests failed in both ways
C3_Witness ==
    /\ pc = "done"
    /\ \E i, k \in 1..Len(calls) : calls[i].text = ApiErrorText /\ calls[k].text = ConnErrorText

\* C4: when a request of a topic failed, the confidence of that topic's result
\* differs from the confidence the topic reports when no request fails.
C4_DegradedConsensusSurfaced ==
    \A t \in Topics :
        (TopicFinished(t) /\ TopicFailures(t) # {})
            => ConfidenceOf(t) # (IF t = "ratio" THEN RatioConfidence
                                  ELSE IF t = "fraud" THEN FraudConfidence
                                  ELSE FinalConfidence)

\* a grade marker, by position
MarkerAt(text, grade, i) ==
    \/ i + 1 <= Len(text) /\ text[i] = grade /\ text[i + 1] = "G"
    \/ i + 2 <= Len(text) /\ text[i] = "G" /\ text[i + 1] \in {" ", ":"} /\ text[i + 2] = grade
HasMarker(text, grade) == \E i \in 1..Len(text) : MarkerAt(text, grade, i)
Marked(text) == {g \in {"S", "A", "B", "C", "D"} : HasMarker(text, g)}

\* C6: when every backend answer of a finished full analysis holds the grade-A
\* marker and no other grade marker, the ratio-grading result, the risk-grading
\* result and the final opinion all carry grade A.
C6_AllAnswersAGiveGradeA ==
    (pc = "done" /\ \A i \in 1..Len(calls) : calls[i].status = "ok" /\ Marked(calls[i].text) = {"A"})
        => /\ result.investment_grade = "A"
           /\ result.risk_grade = "A"
           /\ result.data.final_a2a_opinion.grade = "A"
           /\ result.data.ratios.A2A_grade = "A"
           /\ result.data.fraud_ratios.A2A_grade = "A"

\* C6 witness: such a run, in which the marker came in two different phrasings
C6_Witness ==
    /\ pc = "done"
    /\ \A i \in 1..Len(calls) : calls[i].status = "ok" /\ Marked(calls[i].text) = {"A"}
    /\ \E i \in ConsensusCalls("ratio") : calls[i].text = <<"G", " ", "A">>
    /\ \E i \in ConsensusCalls("fraud") : calls[i].text = <<"A", "G">>

\* ======================================================= the grade extractor
\* every text of at most n symbols
TextsUpTo(n) == UNION {[1..k -> Symbols] : k \in 0..n}

InitGrade ==
    /\ InitEngine
    /\ lastOp = NoOp
    /\ got = None
    /\ th = <<>>
    /\ gui = NoGui
    /\ extractor \in {[text |-> t, grade |-> "none"] : t \in TextsUpTo(MaxTextLen)}
    /\ session = NoSession
    /\ calc = NoCalc

\* _extract_grade_from_consensus applied to the text
ExtractGrade ==
    /\ extractor.grade = "none"
    /\ extractor' = [extractor EXCEPT !.grade = extract_grade_from_consensus(extractor.text)]
    /\ UNCHANGED <<engineVars, cacheVars, now, lastOp, got, th, gui, session, calc>>

SpecGrade == InitGrade /\ [][ExtractGrade]_vars

ClaimedOrder == <<"S", "A", "B", "C", "D">>
ClaimedRank(grade) == CHOOSE k \in 1..5 : ClaimedOrder[k] = grade

\* C5: the extractor returns, for every text, the first grade in the order
\* S, A, B, C, D one of whose phrasing patterns occurs somewhere in the text,
\* and B when none occurs; the result is always one of the five grades.
C5_FirstMarkedGradeElseB ==
    extractor.grade # "none" =>
        /\ extractor.grade \in {"S", "A", "B", "C", "D"}
        /\ Marked(extractor.text) = {} => extractor.grade = "B"
        /\ Marked(extractor.text) # {} =>
              /\ extractor.grade \in Marked(extractor.text)
              /\ \A g \in Marked(extractor.text) : ClaimedRank(extractor.grade) <= ClaimedRank(g)

\* C5 witness: the marker of C stands before the marker of A and A is returned
C5_Witness ==
    /\ extractor.text = <<"C", "G", "A", "G">>
    /\ extractor.grade = "A"

\* ============================================================ the cache
\* the analysis_data dicts handed to save_analysis_context: for a company,
\* with or without filing data, in two versions of the ratios
Context(c, f, g) ==
    [company |-> c, company_info |-> [corp_name |-> c, corp_code |-> c],
     financial_data |-> f, cash_flow_data |-> f, multi_year_data |-> f,
     ratios |-> [basic |-> calculate_basic_ratios(f), A2A_grade |-> g,
                 A2A_consensus |-> <<g, "G">>, A2A_confidence |-> RatioConfidence],
     fraud_ratios |-> None, final_a2a_opinion |-> None]
Contexts ==
    { Context(KnownCompany, Filing(KnownCompany), "A"),
      Context(KnownCompany, EmptyData, "C"),
      Context(SuffixCompany, Filing(SuffixCompany), "A") }

IsOldOrAtCutoff(context, cutoff_time) == context.timestamp <= cutoff_time

\* context["timestamp"] < cutoff_time
IsOld(context, cutoff_time) == context.timestamp < cutoff_time

\* clear_old_contexts run by a single caller at time t
clear_old_contexts(mem, t, hours) ==
    LET cutoff_time == t - hours
        to_remove == {company \in DOMAIN mem : IsOld(mem[company], cutoff_time)}
    IN [company \in (DOMAIN mem) \ to_remove |-> mem[company]]

RECURSIVE SlotsDelAll(_, _)
SlotsDelAll(sl, keys) ==
    IF keys = {} THEN sl
    ELSE LET k == CHOOSE x \in keys : TRUE IN SlotsDelAll(SlotsDel(sl, k), keys \ {k})

InitCache ==
    /\ InitEngine
    /\ lastOp = NoOp
    /\ got = None
    /\ th = <<>>
    /\ gui = NoGui
    /\ extractor = NoText
    /\ session = NoSession
    /\ calc = NoCalc

CachePut(company_name, analysis_data) ==
    /\ conversation_memory' =
           DictSet(conversation_memory, company_name,
                   save_analysis_context(conversation_memory, company_name, analysis_data,
                                         now, discussion_log))
    /\ slots' = SlotsSet(conversation_memory, slots, company_name)
    /\ lastOp' = [name |-> "put", key |-> company_name, hours |-> 0, data |-> analysis_data,
                  before |-> conversation_memory, at |-> now]
    /\ got' = None
    /\ UNCHANGED <<engineVars, now, th, gui, extractor, session, calc>>

CacheGet(company_name) ==
    /\ got' = get_analysis_context(conversation_memory, company_name)
    /\ lastOp' = [name |-> "get", key |-> company_name, hours |-> 0, data |-> None,
                  before |-> EmptyDict, at |-> now]
    /\ UNCHANGED <<engineVars, cacheVars, now, th, gui, extractor, session, calc>>

CacheEvict(hours) ==
    /\ conversation_memory' = clear_old_contexts(conversation_memory, now, hours)
    /\ slots' = SlotsDelAll(slots, (DOMAIN conversation_memory) \ DOMAIN conversation_memory')
    /\ lastOp' = [name |-> "evict", key |-> NoCompany, hours |-> hours, data |-> None,
                  before |-> conversation_memory, at |-> now]
    /\ got' = None
    /\ UNCHANGED <<engineVars, now, th, gui, extractor, session, calc>>

Tick ==
    /\ now < MaxTime
    /\ now' = now + 1
    /\ UNCHANGED <<engineVars, cacheVars, lastOp, got, th, gui, extractor, session, calc>>

NextCache ==
    \/ \E company_name \in Entities, analysis_data \in Contexts : CachePut(company_name, analysis_data)
    \/ \E company_name \in Entities : CacheGet(company_name)
    \/ \E hours \in 0..MaxTime : CacheEvict(hours)
    \/ Tick

SpecCache == InitCache /\ [][NextCache]_vars

OthersUntouched(key) ==
    \A k \in Entities \ {key} :
        /\ (k \in DOMAIN conversation_memory) = (k \in DOMAIN lastOp.before)
        /\ k \in DOMAIN conversation_memory => conversation_memory[k] = lastOp.before[k]

\* C7 as stated: after put(E, c) an immediate get(E) returns an object equal to
\* c, whatever was cached for E before, and the entries of the other entities
\* are unchanged.
C7_GetReturnsWhatWasPut ==
    lastOp.name = "put" =>
        /\ get_analysis_context(conversation_memory, lastOp.key) = lastOp.data
        /\ OthersUntouched(lastOp.key)

\* C7 amended: after put(E, c) an immediate get(E) returns the entry that put
\* built and nothing else: c under analysis_data, c's ratios, financial_data and
\* cash_flow_data, the time of the put and a copy of the deliberation log; no
\* field of the earlier entry survives, and the entries of the other entities
\* are unchanged.
C7_GetReturnsEntryBuiltByPut ==
    lastOp.name = "put" =>
        /\ get_analysis_context(conversation_memory, lastOp.key) =
               [timestamp |-> lastOp.at, analysis_data |-> lastOp.data,
                ratios |-> lastOp.data.ratios,
                financial_data |-> lastOp.data.financial_data,
                cash_flow_data |-> lastOp.data.cash_flow_data,
                a2a_discussion_log |-> discussion_log]
        /\ OthersUntouched(lastOp.key)

\* C7 witness: a put over an older entry of the same entity that held other
\* data, while another entity is cached
C7_Witness ==
    /\ lastOp.name = "put"
    /\ lastOp.key \in DOMAIN lastOp.before
    /\ lastOp.before[lastOp.key].timestamp < lastOp.at
    /\ lastOp.before[lastOp.key].analysis_data # lastOp.data
    /\ lastOp.before[lastOp.key].financial_data # lastOp.data.financial_data
    /\ \E k \in DOMAIN conversation_memory : k # lastOp.key

\* C8: evict_older_than(duration) removes exactly the entries whose timestamp is
\* older than now - duration: get reports not-found for each of them, and every
\* other entry is still present and unchanged.
C8_EvictRemovesExactlyTheOld ==
    lastOp.name = "evict" =>
        \A k \in Entities :
            IF k \in DOMAIN lastOp.before /\ lastOp.before[k].timestamp < lastOp.at - lastOp.hours
            THEN get_analysis_context(conversation_memory, k) = None
            ELSE /\ (k \in DOMAIN conversation_memory) = (k \in DOMAIN lastOp.before)
                 /\ k \in DOMAIN lastOp.before => get_analysis_context(conversation_memory, k) = lastOp.before[k]

\* C8 witness: an eviction that removed one entry and kept another whose
\* timestamp is exactly the cutoff
C8_Witness ==
    /\ lastOp.name = "evict"
    /\ \E k \in DOMAIN lastOp.before : k \notin DOMAIN conversation_memory
    /\ \E k \in DOMAIN conversation_memory :
          conversation_memory[k].timestamp = lastOp.at - lastOp.hours

\* ================================================= the cache under threads
\* Two threads call get, put and evict on the same engine.  A get and a put are
\* one dict operation each; clear_old_contexts is a loop over the live dict
\* followed by a loop of deletions, and another thread can run between any two
\* of its steps.
Threads == {"t1", "t2"}
Idle == [pc |-> "ready", ops |-> 0, cutoff_time |-> 0, it_used |-> 0, it_pos |-> 0,
         to_remove |-> <<>>, got |-> None, error |-> "none"]

InitConc ==
    /\ InitEngine
    /\ lastOp = NoOp
    /\ got = None
    /\ th = [t \in Threads |-> Idle]
    /\ gui = NoGui
    /\ extractor = NoText
    /\ session = NoSession
    /\ calc = NoCalc

CanCall(t) == th[t].pc = "ready" /\ th[t].ops < MaxOps

ThGet(t, company_name) ==
    /\ CanCall(t)
    /\ th' = [th EXCEPT ![t].got = get_analysis_context(conversation_memory, company_name),
                        ![t].ops = @ + 1]
    /\ UNCHANGED <<engineVars, cacheVars, now, lastOp, got, gui, extractor, session, calc>>

ThPut(t, company_name, analysis_data) ==
    /\ CanCall(t)
    /\ conversation_memory' =
           DictSet(conversation_memory, company_name,
                   save_analysis_context(conversation_memory, company_name, analysis_data,
                                         now, discussion_log))
    /\ slots' = SlotsSet(conversation_memory, slots, company_name)
    /\ th' = [th EXCEPT ![t].got = None, ![t].ops = @ + 1]
    /\ UNCHANGED <<engineVars, now, lastOp, got, gui, extractor, session, calc>>

\* the first loop's item at position i + 1: the key joins to_remove when its
\* context is old
LoopBody(state, i) ==
    LET company == slots[i + 1]
        context == conversation_memory[company]
    IN [state EXCEPT !.it_pos = i + 1,
                     !.to_remove = IF IsOld(context, state.cutoff_time)
                                   THEN Append(@, company) ELSE @]

\* cutoff_time is computed, the iterator over the dict's items is created and
\* gives its first item (no other thread runs between the two)
ThEvictBegin(t, hours) ==
    /\ CanCall(t)
    /\ LET started == [th[t] EXCEPT !.got = None,
                                    !.cutoff_time = now - hours,
                                    !.it_used = Cardinality(DOMAIN conversation_memory),
                                    !.it_pos = 0, !.to_remove = <<>>]
       IN th' = [th EXCEPT ![t] = IF Len(slots) = 0
                                  THEN [started EXCEPT !.pc = "delete"]
                                  ELSE [LoopBody(started, 0) EXCEPT !.pc = "iter"]]
    /\ UNCHANGED <<engineVars, cacheVars, now, lastOp, got, gui, extractor, session, calc>>

\* a later pass of the first loop: the iterator raises RuntimeError when the
\* dict changed size since it was created, else it gives the next item or ends
ThEvictNext(t) ==
    /\ th[t].pc = "iter"
    /\ IF Cardinality(DOMAIN conversation_memory) # th[t].it_used
       THEN th' = [th EXCEPT ![t].pc = "failed", ![t].error = "RuntimeError"]
       ELSE IF th[t].it_pos >= Len(slots)
       THEN th' = [th EXCEPT ![t].pc = "delete"]
       ELSE th' = [th EXCEPT ![t] = LoopBody(th[t], th[t].it_pos)]
    /\ UNCHANGED <<engineVars, cacheVars, now, lastOp, got, gui, extractor, session, calc>>

\* position of a key in the insertion order
SlotOf(company) == CHOOSE i \in 1..Len(slots) : slots[i] = company

\* one pass of the second loop: del raises KeyError when the key is gone
ThEvictDelete(t) ==
    /\ th[t].pc = "delete"
    /\ IF th[t].to_remove = <<>>
       THEN /\ th' = [th EXCEPT ![t].pc = "ready", ![t].ops = @ + 1]
            /\ UNCHANGED cacheVars
       ELSE LET company == Head(th[t].to_remove) IN
            IF company \notin DOMAIN conversation_memory
            THEN /\ th' = [th EXCEPT ![t].pc = "failed", ![t].error = "KeyError"]
                 /\ UNCHANGED cacheVars
            ELSE /\ conversation_memory' = DictDel(conversation_memory, company)
                 /\ slots' = SlotsDel(slots, company)
                 \* an iterator that had passed the deleted slot stays where it was
                 /\ th' = [u \in Threads |->
                             IF u = t THEN [th[u] EXCEPT !.to_remove = Tail(@)]
                             ELSE IF th[u].pc = "iter" /\ SlotOf(company) <= th[u].it_pos
                             THEN [th[u] EXCEPT !.it_pos = @ - 1]
                             ELSE th[u]]
    /\ UNCHANGED <<engineVars, now, lastOp, got, gui, extractor, session, calc>>

NextConc ==
    \/ \E t \in Threads, company_name \in Entities : ThGet(t, company_name)
    \/ \E t \in Threads, company_name \in Entities, analysis_data \in Contexts :
          ThPut(t, company_name, analysis_data)
    \/ \E t \in Threads, hours \in 0..MaxTime : ThEvictBegin(t, hours)
    \/ \E t \in Threads : ThEvictNext(t)
    \/ \E t \in Threads : ThEvictDelete(t)
    \/ Tick

SpecConc == InitConc /\ [][NextConc]_vars

\* an entry as one put builds it
BuiltByOnePut(entry) ==
    /\ DOMAIN entry = {"timestamp", "analysis_data", "ratios", "financial_data",
                       "cash_flow_data", "a2a_discussion_log"}
    /\ entry.ratios = entry.analysis_data.ratios
    /\ entry.financial_data = entry.analysis_data.financial_data
    /\ entry.cash_flow_data = entry.analysis_data.cash_flow_data

\* C9: under every interleaving of get, put and evict calls of different
\* threads no call fails because of the interleaving, and every get returns
\* not-found or an entry that a single put built.
C9_ConcurrentCallsAreSafe ==
    \A t \in Threads :
        /\ th[t].error = "none"
        /\ th[t].got = None \/ BuiltByOnePut(th[t].got)

\* ============================================================ the GUI threads
\* search_company starts a search thread that sets self.current_company when it
\* finds the company; start_analysis starts real_analysis_thread, which reads
\* self.current_company again at each use.  The search button stays enabled
\* while an analysis runs.
InitGui ==
    /\ InitEngine
    /\ lastOp = NoOp
    /\ got = None
    /\ th = <<>>
    /\ gui = NoGui
    /\ extractor = NoText
    /\ session = NoSession
    /\ calc = NoCalc

\* search_company: the name typed in is handed to a new search thread
GuiSearchCompany(company_name) ==
    /\ gui.searching = NoCompany
    /\ gui' = [gui EXCEPT !.searching = company_name]
    /\ UNCHANGED <<engineVars, cacheVars, now, otherVars, session, calc>>

\* search_thread: self.current_company is set when the search finds something
GuiSearchThread(found) ==
    /\ gui.searching # NoCompany
    /\ gui' = [gui EXCEPT !.searching = NoCompany,
                          !.current_company = IF found THEN gui.searching ELSE @]
    /\ UNCHANGED <<engineVars, cacheVars, now, otherVars, session, calc>>

\* start_analysis up to the start of real_analysis_thread
GuiStartAnalysis ==
    /\ pc = "idle"
    /\ gui.current_company # NoCompany
    /\ ~gui.is_analyzing
    /\ gui' = [gui EXCEPT !.is_analyzing = TRUE]
    /\ caller' = "gui"
    /\ pc' = "gui_search"
    /\ UNCHANGED <<run, disc, inflight, result, calls, oddLeft, discussion_log, cacheVars, now, otherVars, session, calc>>

\* real_analysis_thread: search_company_dart(self.current_company); no result
\* raises, and analysis_error ends the analysis
GuiAnalysisSearch(found) ==
    /\ pc = "gui_search"
    /\ IF ~found
       THEN /\ pc' = "error"
            /\ result' = RunError
            /\ run' = run
            /\ gui' = [gui EXCEPT !.is_analyzing = FALSE]
       ELSE /\ pc' = "fetch"
            /\ result' = result
            /\ run' = [run EXCEPT !.company_name = gui.current_company,
                                  !.company_info = [corp_name |-> gui.current_company,
                                                    corp_code |-> gui.current_company]]
            /\ gui' = gui
    /\ UNCHANGED <<caller, disc, inflight, calls, oddLeft, discussion_log, cacheVars, now, otherVars, session, calc>>

\* analysis_data = {"company": self.current_company, ...}
GuiBuildData ==
    /\ pc = "gui_save"
    /\ run' = [run EXCEPT !.analysis_data = AnalysisData(gui.current_company, run)]
    /\ pc' = "gui_store"
    /\ UNCHANGED <<caller, disc, inflight, result, calls, oddLeft, discussion_log, cacheVars, now, otherVars, gui, session, calc>>

\* self.agent.save_analysis_context(self.current_company, analysis_data)
GuiStore ==
    /\ pc = "gui_store"
    /\ conversation_memory' =
           DictSet(conversation_memory, gui.current_company,
                   save_analysis_context(conversation_memory, gui.current_company,
                                         run.analysis_data, now, discussion_log))
    /\ slots' = SlotsSet(conversation_memory, slots, gui.current_company)
    /\ pc' = "gui_display"
    /\ UNCHANGED <<caller, run, disc, inflight, result, calls, oddLeft, discussion_log, now, otherVars, gui, session, calc>>

\* display_analysis_results
GuiDisplay ==
    /\ pc = "gui_display"
    /\ gui' = [gui EXCEPT !.is_analyzing = FALSE]
    /\ result' = [type |-> "analysis_complete", data |-> run.analysis_data,
                  company |-> gui.current_company]
    /\ pc' = "done"
    /\ UNCHANGED <<caller, run, disc, inflight, calls, oddLeft, discussion_log, cacheVars, now, otherVars, session, calc>>

NextGui ==
    \/ \E company_name \in Entities : GuiSearchCompany(company_name)
    \/ \E found \in BOOLEAN : GuiSearchThread(found)
    \/ GuiStartAnalysis
    \/ \E found \in BOOLEAN : GuiAnalysisSearch(found)
    \/ \E fin_ok, cash_ok \in BOOLEAN : Fetch(fin_ok, cash_ok)
    \/ OpinionIssue
    \/ \E outcome \in Outcomes(oddLeft) : OpinionReturn(outcome)
    \/ RebuttalIssue
    \/ \E outcome \in Outcomes(oddLeft) : RebuttalReturn(outcome)
    \/ ConsensusIssue
    \/ \E outcome \in Outcomes(oddLeft) : ConsensusReturn(outcome)
    \/ GuiBuildData
    \/ GuiStore
    \/ GuiDisplay

SpecGui == InitGui /\ [][NextGui]_vars

\* C10: a run whose entity was switched while its calls were in flight does not
\* write its result under an entity it did not fetch its data for: every
\* context cached under key E holds the company record and the filing data
\* that were fetched for E.
C10_CachedContextBelongsToItsKey ==
    \A k \in DOMAIN conversation_memory :
        /\ conversation_memory[k].analysis_data.company_info.corp_name = k
        /\ conversation_memory[k].financial_data.owner \in {k, NoCompany}

\* ------------------------------------------------------------ filing fetch
\* a record the data source could not deliver would say so in a field of its own
HasFailureFlag(data) == "fetch_failed" \in DOMAIN data

\* C12: a filing fetch that fails (timeout, non-success status, no data) is
\* observable by the caller of the full analysis: the analysis never goes on
\* with an empty financial record that carries no failure flag, and no context
\* holding such a record is cached.
C12_FetchFailureIsObservable ==
    /\ (pc \in {"issue", "wait", "save", "done"} /\ run.financial_data.empty)
          => HasFailureFlag(run.financial_data)
    /\ \A k \in DOMAIN conversation_memory :
          conversation_memory[k].financial_data.empty
             => HasFailureFlag(conversation_memory[k].financial_data)

\* ------------------------------------------------------ intent classifier
\* A user text is a sequence of characters.  Each keyword of
\* self.query_patterns is a sequence of them; the lists below keep, of every
\* category's list, the keywords whose shape matters to the count:
\*   "f" = "결산", "f" "p" = "결산처리" (a keyword inside another one);
\*   "r" = "비율", "d" "r" = "부채비율", "R" = "ROE" (written in upper case);
\*   "u" = "부정";  "c" = "비교", "j" "n" = "전년";  "v" = "그래프";  "e" = "왜";
\*   "n" "o" = "년도" (overlapping "전년" in the text "전년도");
\*   "b" = "보고서", "w" = "word".
\* "q" is the lower-case spelling of "ROE" and "W" the upper-case one of
\* "word"; "x" is any other character.
MaxQueryLen == 3

QueryChars == {"f", "p", "r", "d", "R", "q", "u", "c", "j", "n", "o", "v", "e", "b", "w", "W", "x"}

\* the keys of self.query_patterns in insertion order
QueryTypes == <<"full_analysis", "ratio_query", "fraud_query", "comparison_query",
                "visualization_query", "explanation_query", "data_source_query",
                "report_query">>

query_patterns ==
    [full_analysis       |-> << <<"f">>, <<"f", "p">> >>,
     ratio_query         |-> << <<"r">>, <<"R">>, <<"d", "r">> >>,
     fraud_query         |-> << <<"u">> >>,
     comparison_query    |-> << <<"c">>, <<"j", "n">> >>,
     visualization_query |-> << <<"v">> >>,
     explanation_query   |-> << <<"e">> >>,
     data_source_query   |-> << <<"n", "o">> >>,
     report_query        |-> << <<"b">>, <<"w">> >>]

\* Python's  user_input.lower()
Lower(text) ==
    [i \in 1..Len(text) |-> IF text[i] = "R" THEN "q"
                            ELSE IF text[i] = "W" THEN "w" ELSE text[i]]

RECURSIVE KeywordScore(_, _, _)
\* sum(1 for keyword in keywords if keyword in user_input_lower)
KeywordScore(keywords, text, i) ==
    IF i > Len(keywords) THEN 0
    ELSE (IF Contains(text, keywords[i]) THEN 1 ELSE 0) + KeywordScore(keywords, text, i + 1)

\* the keys of the dict scores, in insertion order: only positive scores are stored
ScoreKeys(text) ==
    SelectSeq(QueryTypes, LAMBDA qt : KeywordScore(query_patterns[qt], text, 1) > 0)

RECURSIVE MaxKeyLast(_, _, _, _)
MaxKeyLast(keys, text, best, i) ==
    IF i > Len(keys) THEN best
    ELSE MaxKeyLast(keys, text,
                    IF KeywordScore(query_patterns[keys[i]], text, 1)
                          >= KeywordScore(query_patterns[best], text, 1)
                    THEN keys[i] ELSE best, i + 1)

RECURSIVE MaxKey(_, _, _, _)
\* max(scores.keys(), key=lambda x: scores[x]): a later key replaces the best
\* one only when its score is strictly greater
MaxKey(keys, text, best, i) ==
    IF i > Len(keys) THEN best
    ELSE MaxKey(keys, text,
                IF KeywordScore(query_patterns[keys[i]], text, 1)
                      > KeywordScore(query_patterns[best], text, 1)
                THEN keys[i] ELSE best, i + 1)

classify_query_type(user_input) ==
    LET user_input_lower == Lower(user_input)
        keys == ScoreKeys(user_input_lower)
    IN IF keys # <<>> THEN MaxKey(keys, user_input_lower, keys[1], 2) ELSE "general_query"

RECURSIVE SeqsUpTo(_, _)
\* every sequence of at most n elements of S
SeqsUpTo(S, n) ==
    IF n = 0 THEN {<<>>}
    ELSE LET shorter == SeqsUpTo(S, n - 1)
         IN shorter \cup {Append(t, c) : t \in shorter, c \in S}

InitCalc(fn, inputs) ==
    /\ InitEngine
    /\ lastOp = NoOp
    /\ got = None
    /\ th = <<>>
    /\ gui = NoGui
    /\ extractor = NoText
    /\ session = NoSession
    /\ calc \in {[fn |-> fn, args |-> a, done |-> FALSE, value |-> None] : a \in inputs}

InitClassify == InitCalc("classify", SeqsUpTo(QueryChars, MaxQueryLen))

Classify ==
    /\ calc.fn = "classify"
    /\ ~calc.done
    /\ calc' = [calc EXCEPT !.done = TRUE, !.value = classify_query_type(calc.args)]
    /\ UNCHANGED <<engineVars, cacheVars, now, otherVars, gui, session>>

SpecClassify == InitClassify /\ [][Classify]_vars

\* how many keywords of a category occur in the lower-cased text
KeywordCount(qt, text) ==
    Cardinality({k \in 1..Len(query_patterns[qt]) : Contains(Lower(text), query_patterns[qt][k])})

\* C14: the classifier returns the category with the greatest number of
\* keywords occurring in the lower-cased text, the earliest registered one among
\* those tied at the maximum, and the general category exactly when no keyword
\* of any category occurs; a text with two report keywords and one
\* full-analysis keyword is a report query, a text whose only keyword is a
\* report keyword is a report query.
C14_ClassifierPicksFirstMaximum ==
    (calc.fn = "classify" /\ calc.done) =>
        LET text == calc.args
            n == Len(QueryTypes)
        IN /\ (calc.value = "general_query")
                 <=> (\A i \in 1..n : KeywordCount(QueryTypes[i], text) = 0)
           /\ calc.value # "general_query" =>
                 \E i \in 1..n :
                    /\ QueryTypes[i] = calc.value
                    /\ \A j \in 1..n : KeywordCount(QueryTypes[j], text) <= KeywordCount(calc.value, text)
                    /\ \A j \in 1..(i - 1) : KeywordCount(QueryTypes[j], text) < KeywordCount(calc.value, text)
           /\ text = <<"f", "b", "w">> => calc.value = "report_query"
           /\ (KeywordCount("report_query", text) = 1
                 /\ \A i \in 1..(n - 1) : KeywordCount(QueryTypes[i], text) = 0)
                 => calc.value = "report_query"

\* a tie between two categories was broken, and a 2-versus-1 text classified
C14_Witness ==
    /\ calc.fn = "classify"
    /\ calc.done
    /\ calc.args = <<"v", "c">>
    /\ calc.value = "comparison_query"

\* -------------------------------------------------------------- normalizer
\* An account label is a sequence of word parts:
\*   "Cash" 현금, "And" 및, "Like" 성, "Asset" 자산, "Sales" 매출, "Claim" 채권,
\*   "Stock" 재고, "Tot" 총, "Sum" 계, "Profit" 이익, "Amt" 액, "Inc" 수익,
\*   "Oper" 영업, "Loss" 손실, "PnL" 손익, "Term" 당기, "Cons" 연결, "Net" 순,
\*   "Owner" 지배기업소유주지분, "Debt" 부채, "Cap" 자본, "Self" 자기,
\*   "OpAct" 영업활동, "From" 으로인한, "InvAct" 투자활동, "FinAct" 재무활동,
\*   "CashFlow" 현금흐름, "(" ")" "[" "]" the brackets, "x" anything else.
MaxItems == 2

\* target_accounts, in insertion order
target_accounts ==
    << [name |-> <<"Cash", "And", "Cash", "Like", "Asset">>, key |-> "cash_and_equivalents"],
       [name |-> <<"Sales", "Claim">>,                       key |-> "accounts_receivable"],
       [name |-> <<"Stock", "Asset">>,                       key |-> "inventory"],
       [name |-> <<"Sales", "Tot", "Profit">>,               key |-> "gross_profit"],
       [name |-> <<"Sales", "Amt">>,                         key |-> "revenue"],
       [name |-> <<"Inc", "(", "Sales", "Amt", ")">>,        key |-> "revenue"],
       [name |-> <<"Oper", "Inc">>,                          key |-> "revenue"],
       [name |-> <<"Sales">>,                                key |-> "revenue"],
       [name |-> <<"Inc">>,                                  key |-> "revenue"],
       [name |-> <<"Oper", "Profit">>,                       key |-> "operating_income"],
       [name |-> <<"Oper", "Profit", "(", "Loss", ")">>,     key |-> "operating_income"],
       [name |-> <<"Oper", "PnL">>,                          key |-> "operating_income"],
       [name |-> <<"Term", "Net", "Profit">>,                key |-> "net_income"],
       [name |-> <<"Term", "Net", "Profit", "(", "Loss", ")">>, key |-> "net_income"],
       [name |-> <<"Cons", "Term", "Net", "Profit">>,        key |-> "net_income"],
       [name |-> <<"Net", "Profit">>,                        key |-> "net_income"],
       [name |-> <<"Term", "Net", "PnL">>,                   key |-> "net_income"],
       [name |-> <<"Owner", "Term", "Net", "Profit">>,       key |-> "net_income"],
       [name |-> <<"Owner", "Term", "Net", "PnL">>,          key |-> "net_income"],
       [name |-> <<"Asset", "Tot", "Sum">>,                  key |-> "total_assets"],
       [name |-> <<"Tot", "Asset">>,                         key |-> "total_assets"],
       [name |-> <<"Debt", "Tot", "Sum">>,                   key |-> "total_liabilities"],
       [name |-> <<"Tot", "Debt">>,                          key |-> "total_liabilities"],
       [name |-> <<"Cap", "Tot", "Sum">>,                    key |-> "total_equity"],
       [name |-> <<"Self", "Cap">>,                          key |-> "total_equity"],
       [name |-> <<"Cons", "Cap", "Tot", "Sum">>,            key |-> "total_equity"],
       [name |-> <<"Tot", "Cap">>,                           key |-> "total_equity"],
       [name |-> <<"Owner">>,                                key |-> "total_equity"] >>

\* cash_flow_accounts, in insertion order
cash_flow_accounts ==
    << [name |-> <<"OpAct", "CashFlow">>,         key |-> "operating_cash_flow"],
       [name |-> <<"OpAct", "From", "CashFlow">>, key |-> "operating_cash_flow"],
       [name |-> <<"InvAct", "CashFlow">>,        key |-> "investing_cash_flow"],
       [name |-> <<"FinAct", "CashFlow">>,        key |-> "financing_cash_flow"] >>

\* sj_nm: "IS" 손익계산서, "BS" 재무상태표, "CIS" 포괄손익계산서, "CF" 현금흐름표
RelevantSections == {"IS", "BS", "CIS"}

RECURSIVE StripGroups(_, _, _)
\* re.sub of  open .*? close : from the leftmost open to the nearest close
StripGroups(label, open, close) ==
    IF \E i \in 1..Len(label) : label[i] = open /\ \E j \in (i + 1)..Len(label) : label[j] = close
    THEN LET i == CHOOSE a \in 1..Len(label) :
                     /\ label[a] = open
                     /\ \A b \in 1..(a - 1) : label[b] # open
             j == CHOOSE a \in (i + 1)..Len(label) :
                     /\ label[a] = close
                     /\ \A b \in (i + 1)..(a - 1) : label[b] # close
         IN SubSeq(label, 1, i - 1) \o StripGroups(SubSeq(label, j + 1, Len(label)), open, close)
    ELSE label

\* account_nm_cleaned
CleanLabel(account_nm) == StripGroups(StripGroups(account_nm, "[", "]"), "(", ")")

\* thstrm_amount is a text: digits with an optional sign and commas
\* ("integer"), the same with a decimal point ("decimal", its value counted in
\* tenths), "", "-", "nan", or something that is no number ("junk")
TruncTenths(n) == IF n >= 0 THEN n \div 10 ELSE -((-n) \div 10)

\* int(float(current_amount)), 0 for the listed texts and on any exception
parse_amount(raw) ==
    IF raw.kind = "integer" THEN raw.value
    ELSE IF raw.kind = "decimal" THEN TruncTenths(raw.value)
    ELSE 0

\* int(current_amount) if current_amount.lstrip('-').isdigit() else 0
parse_cash_amount(raw) == IF raw.kind = "integer" THEN raw.value ELSE 0

RECURSIVE ScanTargets(_, _, _, _)
\* the loop over target_accounts for one item
ScanTargets(financial_data, label, amount, k) ==
    IF k > Len(target_accounts) THEN financial_data
    ELSE LET t == target_accounts[k] IN
         IF label = t.name
         THEN IF amount # 0 THEN DictSet(financial_data, t.key, amount)
              ELSE ScanTargets(financial_data, label, amount, k + 1)
         ELSE IF Contains(label, t.name) \/ Contains(t.name, label)
         THEN IF (t.key \notin DOMAIN financial_data \/ financial_data[t.key] = 0) /\ amount # 0
              THEN DictSet(financial_data, t.key, amount)
              ELSE ScanTargets(financial_data, label, amount, k + 1)
         ELSE ScanTargets(financial_data, label, amount, k + 1)

RECURSIVE ParseItems(_, _, _)
ParseItems(financial_data, items, i) ==
    IF i > Len(items) THEN financial_data
    ELSE ParseItems(ScanTargets(financial_data, CleanLabel(items[i].account_nm),
                                parse_amount(items[i].thstrm_amount), 1),
                    items, i + 1)

parse_financial_statements(financial_list) ==
    ParseItems(EmptyDict, SelectSeq(financial_list, LAMBDA item : item.sj_nm \in RelevantSections), 1)

RECURSIVE ScanCashTargets(_, _, _, _)
ScanCashTargets(cash_flow_data, account_nm, amount, k) ==
    IF k > Len(cash_flow_accounts) THEN cash_flow_data
    ELSE IF Contains(account_nm, cash_flow_accounts[k].name)
    THEN DictSet(cash_flow_data, cash_flow_accounts[k].key, amount)
    ELSE ScanCashTargets(cash_flow_data, account_nm, amount, k + 1)

RECURSIVE ParseCashItems(_, _, _)
ParseCashItems(cash_flow_data, items, i) ==
    IF i > Len(items) THEN cash_flow_data
    ELSE ParseCashItems(ScanCashTargets(cash_flow_data, items[i].account_nm,
                                        parse_cash_amount(items[i].thstrm_amount), 1),
                        items, i + 1)

parse_cash_flow_data(financial_list) ==
    ParseCashItems(EmptyDict, SelectSeq(financial_list, LAMBDA item : item.sj_nm = "CF"), 1)

\* the line items the data source may deliver
RawLabels ==
    { <<"Sales", "Amt">>, <<"Net", "Profit">>, <<"Term", "Net", "Profit", "(", "Loss", ")">>,
      <<"Profit">>, <<"Cap", "Tot", "Sum">>, <<"(", "Loss", ")">>,
      <<"OpAct", "CashFlow">>, <<"Sales">>, <<"x">> }
RawAmounts ==
    { [kind |-> "integer", value |-> 7], [kind |-> "integer", value |-> 0],
      [kind |-> "decimal", value |-> -25], [kind |-> "dash", value |-> 0] }
RawItems ==
    { [sj_nm |-> s, account_nm |-> l, thstrm_amount |-> a] :
         s \in {"IS", "CF"}, l \in RawLabels, a \in RawAmounts }

InitParse == InitCalc("parse", SeqsUpTo(RawItems, MaxItems))

Parse ==
    /\ calc.fn = "parse"
    /\ ~calc.done
    /\ calc' = [calc EXCEPT !.done = TRUE,
                            !.value = [financial_data |-> parse_financial_statements(calc.args),
                                       cash_flow_data |-> parse_cash_flow_data(calc.args)]]
    /\ UNCHANGED <<engineVars, cacheVars, now, otherVars, gui, session>>

SpecParse == InitParse /\ [][Parse]_vars

\* the fields of the two records
CanonicalFields == {target_accounts[k].key : k \in 1..Len(target_accounts)}
CashFlowFields == {cash_flow_accounts[k].key : k \in 1..Len(cash_flow_accounts)}

\* some item of the input carries a label of the field and an amount other than 0
FieldMatched(items, field) ==
    \E i \in 1..Len(items), k \in 1..Len(target_accounts) :
        /\ items[i].sj_nm \in RelevantSections
        /\ target_accounts[k].key = field
        /\ parse_amount(items[i].thstrm_amount) # 0
        /\ LET label == CleanLabel(items[i].account_nm)
           IN Contains(label, target_accounts[k].name) \/ Contains(target_accounts[k].name, label)

\* C15: for every sequence of raw line items, the empty one included, the
\* records returned by the normalizer have every canonical field as a key, and
\* a field that no item matched has the value 0.
C15_EveryFieldPresent ==
    (calc.fn = "parse" /\ calc.done) =>
        /\ \A field \in CanonicalFields :
              /\ field \in DOMAIN calc.value.financial_data
              /\ ~FieldMatched(calc.args, field) => calc.value.financial_data[field] = 0
        /\ \A field \in CashFlowFields : field \in DOMAIN calc.value.cash_flow_data

\* the warnings attached to a record
Warnings(record) == IF "warnings" \in DOMAIN record THEN record["warnings"] ELSE {}

\* C16: a canonical field left unmatched or zero by the normalizer is named in
\* a flag attached to the returned record, so that the record alone tells
\* "no net income found" from a net income of 0.
C16_UnmatchedFieldIsFlagged ==
    (calc.fn = "parse" /\ calc.done) =>
        \A field \in CanonicalFields :
            (field \notin DOMAIN calc.value.financial_data \/ calc.value.financial_data[field] = 0)
               => field \in Warnings(calc.value.financial_data)

\* ------------------------------------------------------------ ratio engine
\* The values of the ratios are kept as exact fractions n/d in lowest terms
\* with d > 0 (the code computes them in double precision, which is exact to
\* within rounding for amounts of this size).
MaxAmount == 2

Abs(x) == IF x < 0 THEN -x ELSE x

RECURSIVE Gcd(_, _)
Gcd(a, b) == IF b = 0 THEN a ELSE Gcd(b, a % b)

\* the fraction n/d, d # 0
Rat(n, d) ==
    LET g == Gcd(Abs(n), Abs(d))
        s == IF d < 0 THEN -1 ELSE 1
    IN [n |-> (s * n) \div g, d |-> (s * d) \div g]

Times(r, k) == Rat(r.n * k, r.d)

\* Python's  d.get(k, default)
Get(d, k, default) == IF k \in DOMAIN d THEN d[k] ELSE default

safe_divide_or_one(a, b) == IF b # 0 THEN Rat(a, b) ELSE Rat(1, 1)

\* def safe_divide(a, b, default=0)
safe_divide(a, b) == IF b # 0 THEN Rat(a, b) ELSE Rat(0, 1)

\* _calculate_basic_ratios with the numbers in it; the keys are
\* ROE, ROA, 영업이익률, 순이익률, 부채비율, 자기자본비율, 매출성장률, 순이익성장률
ratio_values(financial_data, multi_year_data) ==
    LET revenue == Get(financial_data, "revenue", 0)
        operating_income == Get(financial_data, "operating_income", 0)
        net_income == Get(financial_data, "net_income", 0)
        total_assets == Get(financial_data, "total_assets", 0)
        total_liabilities == Get(financial_data, "total_liabilities", 0)
        total_equity == Get(financial_data, "total_equity", 0)
        ratios == [ROE |-> Times(safe_divide(net_income, total_equity), 100),
                   ROA |-> Times(safe_divide(net_income, total_assets), 100),
                   operating_margin |-> Times(safe_divide(operating_income, revenue), 100),
                   net_margin |-> Times(safe_divide(net_income, revenue), 100),
                   debt_ratio |-> Times(safe_divide(total_liabilities, total_equity), 100),
                   equity_ratio |-> Times(safe_divide(total_equity, total_assets), 100)]
    IN IF multi_year_data # EmptyDict /\ "2023" \in DOMAIN multi_year_data
       THEN LET prev_data == multi_year_data["2023"]
                prev_revenue == Get(prev_data, "revenue", 0)
                prev_net_income == Get(prev_data, "net_income", 0)
                growth == [revenue_growth |->
                               Times(safe_divide(revenue - prev_revenue, prev_revenue), 100),
                           net_income_growth |->
                               Times(safe_divide(net_income - prev_net_income, prev_net_income), 100)]
            IN [k \in (DOMAIN ratios) \cup (DOMAIN growth) |->
                   IF k \in DOMAIN growth THEN growth[k] ELSE ratios[k]]
       ELSE ratios

\* the records the engine is applied to
RatioAmounts == {-1, 0, MaxAmount}
ExampleRecord ==
    [revenue |-> 1000000, operating_income |-> 0, net_income |-> 100000,
     total_assets |-> 0, total_liabilities |-> 300000, total_equity |-> 500000]
FinancialRecords ==
    [revenue : RatioAmounts, operating_income : RatioAmounts, net_income : RatioAmounts,
     total_assets : RatioAmounts, total_liabilities : RatioAmounts, total_equity : RatioAmounts]
      \cup {ExampleRecord, EmptyDict}
PriorRecords ==
    {[revenue |-> 0, net_income |-> 0], [revenue |-> 1, net_income |-> -1], EmptyDict}
MultiYearData ==
    {EmptyDict} \cup {[y \in {year} |-> prev] : year \in {"2022", "2023"}, prev \in PriorRecords}

InitRatio ==
    InitCalc("ratio", {[financial_data |-> f, multi_year_data |-> m] :
                          f \in FinancialRecords, m \in MultiYearData})

Ratio ==
    /\ calc.fn = "ratio"
    /\ ~calc.done
    /\ calc' = [calc EXCEPT !.done = TRUE,
                            !.value = ratio_values(calc.args.financial_data,
                                                   calc.args.multi_year_data)]
    /\ UNCHANGED <<engineVars, cacheVars, now, otherVars, gui, session>>

SpecRatio == InitRatio /\ [][Ratio]_vars

\* r is num/den * 100, and 0 when den = 0
IsPercentOf(r, num, den) ==
    /\ r.d > 0
    /\ IF den = 0 THEN r.n = 0 ELSE r.n * den = num * 100 * r.d

\* C17: for every record of bounded integer amounts the ratio engine returns
\* ROE = net_income/equity*100, ROA = net_income/assets*100, operating margin =
\* operating_income/revenue*100, net margin = net_income/revenue*100, debt
\* ratio = liabilities/equity*100 and equity ratio = equity/assets*100, each of
\* them 0 when its denominator is 0; the record with revenue 1,000,000, net
\* income 100,000, equity 500,000 and liabilities 300,000 gives ROE 20, debt
\* ratio 60 and net margin 10; with a prior-period record the two growth rates
\* are present and follow the same rule.
C17_RatiosFollowTheFormulas ==
    (calc.fn = "ratio" /\ calc.done) =>
        LET f == calc.args.financial_data
            m == calc.args.multi_year_data
            v == calc.value
            revenue == Get(f, "revenue", 0)
            net_income == Get(f, "net_income", 0)
            equity == Get(f, "total_equity", 0)
            assets == Get(f, "total_assets", 0)
        IN /\ {"ROE", "ROA", "operating_margin", "net_margin", "debt_ratio", "equity_ratio"}
                 \subseteq DOMAIN v
           /\ IsPercentOf(v.ROE, net_income, equity)
           /\ IsPercentOf(v.ROA, net_income, assets)
           /\ IsPercentOf(v.operating_margin, Get(f, "operating_income", 0), revenue)
           /\ IsPercentOf(v.net_margin, net_income, revenue)
           /\ IsPercentOf(v.debt_ratio, Get(f, "total_liabilities", 0), equity)
           /\ IsPercentOf(v.equity_ratio, equity, assets)
           /\ f = ExampleRecord =>
                 /\ v.ROE = [n |-> 20, d |-> 1]
                 /\ v.debt_ratio = [n |-> 60, d |-> 1]
                 /\ v.net_margin = [n |-> 10, d |-> 1]
           /\ "2023" \in DOMAIN m =>
                 LET prev == m["2023"] IN
                 /\ {"revenue_growth", "net_income_growth"} \subseteq DOMAIN v
                 /\ IsPercentOf(v.revenue_growth, revenue - Get(prev, "revenue", 0),
                                Get(prev, "revenue", 0))
                 /\ IsPercentOf(v.net_income_growth, net_income - Get(prev, "net_income", 0),
                                Get(prev, "net_income", 0))

\* the example record was evaluated together with a prior-period record
C17_Witness ==
    /\ calc.fn = "ratio"
    /\ calc.done
    /\ calc.args.financial_data = ExampleRecord
    /\ "2023" \in DOMAIN calc.args.multi_year_data
    /\ calc.value.ROE = [n |-> 20, d |-> 1]
    /\ calc.value.ROA = [n |-> 0, d |-> 1]

\* ---------------------------------------------------- fraud indicator engine
\* r < 1/2 and r > k for a fraction r in lowest terms with d > 0
LessThanHalf(r) == 2 * r.n < r.d
GreaterThan(r, k) == r.n > k * r.d

calculate_fraud_risk_score_at_half(indicators) ==
    LET cf_ni_ratio == Get(indicators, "cash_flow_to_net_income", Rat(1, 1))
        ar_ratio == Get(indicators, "receivables_to_revenue", Rat(0, 1))
        score == (IF 2 * cf_ni_ratio.n <= cf_ni_ratio.d THEN 30 ELSE 0)
                 + (IF GreaterThan(ar_ratio, 25) THEN 25 ELSE 0)
                 + (IF Get(indicators, "positive_income_negative_cashflow", FALSE) THEN 25 ELSE 0)
    IN Min(score, 100)

\* _calculate_fraud_risk_score; the keys of indicators are 현금흐름_대_순이익_비율,
\* 매출채권_대_매출_비율 and 순이익_양수_현금흐름_음수
calculate_fraud_risk_score(indicators) ==
    LET cf_ni_ratio == Get(indicators, "cash_flow_to_net_income", Rat(1, 1))
        ar_ratio == Get(indicators, "receivables_to_revenue", Rat(0, 1))
        score == (IF LessThanHalf(cf_ni_ratio) THEN 30 ELSE 0)
                 + (IF GreaterThan(ar_ratio, 25) THEN 25 ELSE 0)
                 + (IF Get(indicators, "positive_income_negative_cashflow", FALSE) THEN 25 ELSE 0)
    IN Min(score, 100)

\* _calculate_basic_fraud_indicators with the numbers in it; the score is
\* stored under 종합_부정위험점수
fraud_indicator_values(financial_data, cash_flow_data) ==
    LET revenue == Get(financial_data, "revenue", 0)
        net_income == Get(financial_data, "net_income", 0)
        receivables == Get(financial_data, "accounts_receivable", 0)
        operating_cash_flow == Get(cash_flow_data, "operating_cash_flow", 0)
        indicators ==
            [cash_flow_to_net_income |->
                 IF net_income # 0 THEN Rat(operating_cash_flow, net_income) ELSE Rat(0, 1),
             receivables_to_revenue |->
                 IF revenue # 0 THEN Times(Rat(receivables, revenue), 100) ELSE Rat(0, 1),
             positive_income_negative_cashflow |-> (net_income > 0 /\ operating_cash_flow < 0)]
    IN [cash_flow_to_net_income |-> indicators.cash_flow_to_net_income,
        receivables_to_revenue |-> indicators.receivables_to_revenue,
        positive_income_negative_cashflow |-> indicators.positive_income_negative_cashflow,
        risk_score |-> calculate_fraud_risk_score(indicators)]

determine_fraud_risk_level_high_from_50(fraud_ratios) ==
    LET risk_score == Get(fraud_ratios, "risk_score", 0)
    IN IF risk_score >= 50 THEN "HIGH"
       ELSE IF risk_score >= 40 THEN "MEDIUM"
       ELSE IF risk_score >= 20 THEN "LOW"
       ELSE "MINIMAL"

\* _determine_fraud_risk_level of the conversation handler
determine_fraud_risk_level(fraud_ratios) ==
    LET risk_score == Get(fraud_ratios, "risk_score", 0)
    IN IF risk_score >= 70 THEN "HIGH"
       ELSE IF risk_score >= 40 THEN "MEDIUM"
       ELSE IF risk_score >= 20 THEN "LOW"
       ELSE "MINIMAL"

\* the indicators as _handle_fraud_query replies them: with "risk_level"
WithRiskLevel(fraud_ratios) ==
    [k \in (DOMAIN fraud_ratios) \cup {"risk_level"} |->
        IF k = "risk_level" THEN determine_fraud_risk_level(fraud_ratios) ELSE fraud_ratios[k]]

FraudAmounts == (-MaxAmount)..MaxAmount
FraudInputs ==
    {[financial_data |-> f, cash_flow_data |-> c] :
        f \in [revenue : FraudAmounts, net_income : FraudAmounts, accounts_receivable : FraudAmounts]
                 \cup {EmptyDict},
        c \in [operating_cash_flow : FraudAmounts] \cup {EmptyDict}}

InitFraud == InitCalc("fraud", FraudInputs)

Fraud ==
    /\ calc.fn = "fraud"
    /\ ~calc.done
    /\ calc' = [calc EXCEPT !.done = TRUE,
                            !.value = WithRiskLevel(
                                          fraud_indicator_values(calc.args.financial_data,
                                                                 calc.args.cash_flow_data))]
    /\ UNCHANGED <<engineVars, cacheVars, now, otherVars, gui, session>>

SpecFraud == InitFraud /\ [][Fraud]_vars

\* the three penalties, read from the indicators of the returned set
PenaltySum(v) ==
    (IF LessThanHalf(v.cash_flow_to_net_income) THEN 30 ELSE 0)
    + (IF GreaterThan(v.receivables_to_revenue, 25) THEN 25 ELSE 0)
    + (IF v.positive_income_negative_cashflow THEN 25 ELSE 0)

\* C18: for a record with net_income = 0 the indicator cash_flow_to_net_income
\* has the default value 1, and the penalty of 30 for a value below 0.5 is not
\* part of the risk score.
C18_ZeroNetIncomeDefaultsToOne ==
    (calc.fn = "fraud" /\ calc.done /\ Get(calc.args.financial_data, "net_income", 0) = 0) =>
        /\ calc.value.cash_flow_to_net_income = Rat(1, 1)
        /\ calc.value.risk_score =
              (IF GreaterThan(calc.value.receivables_to_revenue, 25) THEN 25 ELSE 0)
              + (IF calc.value.positive_income_negative_cashflow THEN 25 ELSE 0)

\* C19: the risk score lies in 0..100 and is the sum, clamped to that range, of
\* 30 if cash_flow_to_net_income < 0.5, 25 if receivables_to_revenue > 25 and
\* 25 if positive_income_negative_cashflow is true.
C19_ScoreIsClampedPenaltySum ==
    (calc.fn = "fraud" /\ calc.done) =>
        /\ calc.value.risk_score \in 0..100
        /\ calc.value.risk_score =
              (IF PenaltySum(calc.value) > 100 THEN 100
               ELSE IF PenaltySum(calc.value) < 0 THEN 0 ELSE PenaltySum(calc.value))

\* the three conditions of the penalties hold together
AllPenalties(v) ==
    /\ LessThanHalf(v.cash_flow_to_net_income)
    /\ GreaterThan(v.receivables_to_revenue, 25)
    /\ v.positive_income_negative_cashflow

\* a score made of the penalties for the cash-flow ratio and for the receivables
C19_Witness ==
    /\ calc.fn = "fraud"
    /\ calc.done
    /\ calc.value.risk_score = 55
    /\ GreaterThan(calc.value.receivables_to_revenue, 25)

\* C20: when the three penalty conditions hold together the risk score is 100.
C20_AllPenaltiesGive100 ==
    (calc.fn = "fraud" /\ calc.done /\ AllPenalties(calc.value)) => calc.value.risk_score = 100

\* ------------------------------------------------------ conversation handler
\* queries of one session
MaxQueries == 2

\* _extract_company_name: the same three patterns, tried in order, on the
\* user's text (a company name in a text is one character of it)
extract_company_name(user_input) ==
    IF \E i \in 1..Len(user_input) : user_input[i] \in {KnownCompany, LongCompany}
    THEN KnownCompany
    ELSE IF \E i \in 1..Len(user_input) : user_input[i] = SuffixCompany
    THEN SuffixCompany
    ELSE NoCompany

\* the dict a handler returns
Reply(type, company, message) ==
    [raised |-> FALSE, type |-> type, company |-> company, message |-> message]
\* an exception leaving process_user_query
Raised(exception) ==
    [raised |-> TRUE, type |-> exception, company |-> NoCompany, message |-> <<>>]

NeedsContextOnlyCompany(company, context, without_company, otherwise) ==
    IF company = NoCompany THEN Reply(without_company, NoCompany, <<"name a company first">>)
    ELSE otherwise

\* what a handler that needs an analysed company answers without one;
\* context is falsy when nothing is cached for the company
NeedsContext(company, context, without_company, otherwise) ==
    IF company = NoCompany THEN Reply(without_company, NoCompany, <<"name a company first">>)
    ELSE IF context = None THEN Reply("analysis_needed", NoCompany, <<"analyse the company first">>)
    ELSE otherwise

\* _extract_comparison_target: "전년" asks for last year's figures
ComparisonReply(company, user_input) ==
    IF Contains(Lower(user_input), <<"j", "n">>)
    THEN Reply("year_comparison", company, <<"growth against last year">>)
    ELSE Reply("comparison_options", NoCompany, <<"which comparison">>)

\* the handlers that answer without waiting for a deliberation; outcome is what
\* the backend does with a request, rendered whether the chart or report
\* renderer delivers a file
InstantReply(query_type, company, context, user_input, outcome, rendered) ==
    IF query_type = "full_analysis"
    THEN IF company = NoCompany
         THEN Reply("company_request", NoCompany, <<"which company">>)
         ELSE Reply("analysis_error", NoCompany, <<"no company name found">>)
    ELSE IF query_type = "ratio_query"
    THEN NeedsContext(company, context, "error", Reply("ratio_response", company, <<"ratios">>))
    ELSE IF query_type = "fraud_query"
    THEN NeedsContext(company, context, "error", Reply("fraud_analysis", company, <<"risk">>))
    ELSE IF query_type = "comparison_query"
    THEN NeedsContext(company, context, "error", ComparisonReply(company, user_input))
    ELSE IF query_type = "visualization_query"
    THEN NeedsContext(company, context, "error",
                      IF rendered THEN Reply("visualization_complete", NoCompany, <<"chart">>)
                      ELSE Reply("error", NoCompany, <<"chart failed">>))
    ELSE IF query_type = "explanation_query"
    THEN NeedsContext(company, context, "error",
                      LET r == call_ollama("analyzer", outcome)
                      IN IF r.raised THEN Raised("KeyError")
                         ELSE Reply("detailed_explanation", company, r.text))
    ELSE IF query_type = "data_source_query"
    THEN IF company = NoCompany \/ context = None
         THEN Reply("general_info", NoCompany, <<"source">>)
         ELSE Reply("data_source_info", company, <<"source">>)
    ELSE IF query_type = "report_query"
    THEN NeedsContext(company, context, "error",
                      IF rendered THEN Reply("report_generated", company, <<"report">>)
                      ELSE Reply("error", NoCompany, <<"report failed">>))
    ELSE LET r == call_ollama("coordinator", outcome)
         IN IF r.raised THEN Raised("KeyError") ELSE Reply("general_response", NoCompany, r.text)

\* self.agent.call_ollama("coordinator", general_prompt) of _handle_general_query
GeneralCall(outcome) ==
    [topic |-> "none", phase |-> "general", agent |-> "coordinator",
     status |-> IF outcome.kind = "ok" THEN "ok" ELSE "failed",
     text |-> call_ollama("coordinator", outcome).text]

\* the texts a user sends and the company_name argument of the call
QueryTexts ==
    { <<"f">>, <<SuffixCompany, "f">>, <<"r">>, <<"u">>, <<"c">>, <<"j", "n">>, <<"v">>,
      <<"e">>, <<"n", "o">>, <<"b">>, <<"x">> }
CompanyArgs == {NoCompany, KnownCompany, LongCompany}

\* backend requests of one session that may answer something else than the
\* default text
MaxQueryOddResponses == 1

InitQuery ==
    /\ discussion_log = <<>>
    /\ conversation_memory = EmptyDict
    /\ slots = <<>>
    /\ now = 0
    /\ pc = "idle"
    /\ caller = "none"
    /\ run = NoRun
    /\ disc = NoDisc
    /\ inflight = NoCall
    /\ result = None
    /\ calls = <<>>
    /\ oddLeft = MaxQueryOddResponses
    /\ lastOp = NoOp
    /\ got = None
    /\ th = <<>>
    /\ gui = NoGui
    /\ extractor = NoText
    /\ session = NoSession
    /\ calc = NoCalc

\* process_user_query up to its return, or up to the first backend request of
\* the analysis or deliberation it starts
Query(user_input, company_name, outcome, rendered) ==
    /\ pc = "idle"
    /\ Len(session.history) < MaxQueries
    /\ LET current_company ==
               IF company_name # NoCompany THEN company_name
               ELSE IF extract_company_name(user_input) # NoCompany
               THEN extract_company_name(user_input)
               ELSE session.current_company
           query_type == classify_query_type(user_input)
           context == get_analysis_context(conversation_memory, current_company)
           \* the turn is recorded before the company is resolved:
           \* "company": company_name or self.current_company
           turn == [user_input |-> user_input,
                    company |-> IF company_name # NoCompany THEN company_name
                                ELSE session.current_company]
           served == [session EXCEPT !.history = Append(@, turn),
                                     !.current_company = current_company,
                                     !.user_input = user_input,
                                     !.query_type = query_type,
                                     !.response = None]
           request == <<current_company, "w">>
       IN IF /\ query_type = "full_analysis"
             /\ current_company # NoCompany
             /\ extract_company_from_request(request) # NoCompany
          THEN /\ session' = served
               /\ caller' = "handler"
               /\ run' = [NoRun EXCEPT !.company_name = extract_company_from_request(request)]
               /\ result' = None
               /\ pc' = "search"
               /\ UNCHANGED <<disc, oddLeft, calls>>
          ELSE IF query_type = "fraud_query" /\ current_company # NoCompany /\ context # None
          THEN /\ session' = served
               /\ caller' = "fraud_query"
               /\ run' = [NoRun EXCEPT !.company_name = current_company,
                                       !.financial_data = context.financial_data,
                                       !.cash_flow_data = context.cash_flow_data,
                                       !.fraud_ratios = calculate_basic_fraud_indicators(
                                                            context.financial_data,
                                                            context.cash_flow_data)]
               /\ result' = None
               /\ disc' = StartTopic("fraud")
               /\ pc' = "issue"
               /\ UNCHANGED <<oddLeft, calls>>
          ELSE /\ session' = [served EXCEPT !.response =
                                 InstantReply(query_type, current_company, context,
                                              user_input, outcome, rendered)]
               /\ oddLeft' = IF query_type = "general_query" THEN oddLeft - Cost(outcome)
                             ELSE oddLeft
               \* _handle_general_query is the one handler whose request
               \* reaches the backend from here
               /\ calls' = IF query_type = "general_query"
                            THEN Append(calls, GeneralCall(outcome))
                            ELSE calls
               /\ UNCHANGED <<pc, caller, run, result, disc>>
    /\ UNCHANGED <<discussion_log, inflight, cacheVars, now, otherVars, gui, calc>>

\* _handle_full_analysis_request after autonomous_settlement_processing returned
FullAnalysisReturn ==
    /\ caller = "handler"
    /\ pc \in {"done", "error"}
    /\ session' = [session EXCEPT !.response =
                      IF "error" \in DOMAIN result
                      THEN Reply("analysis_error", NoCompany, <<"analysis failed">>)
                      ELSE Reply("a2a_analysis_complete", session.current_company, <<"summary">>)]
    /\ pc' = "idle"
    /\ caller' = "none"
    /\ UNCHANGED <<run, disc, inflight, result, calls, oddLeft, discussion_log, cacheVars,
                   now, otherVars, gui, calc>>

\* _handle_fraud_query after calculate_fraud_detection_ratios returned
FraudQueryReturn ==
    /\ caller = "fraud_query"
    /\ pc = "fraud_reply"
    /\ session' = [session EXCEPT !.response =
                      Reply("fraud_analysis", session.current_company, <<"risk">>)]
    /\ pc' = "idle"
    /\ caller' = "none"
    /\ UNCHANGED <<run, disc, inflight, result, calls, oddLeft, discussion_log, cacheVars,
                   now, otherVars, gui, calc>>

NextQuery ==
    \/ \E user_input \in QueryTexts, company_name \in CompanyArgs,
          outcome \in Outcomes(oddLeft), rendered \in BOOLEAN :
          Query(user_input, company_name, outcome, rendered)
    \/ \E found \in BOOLEAN : AutonomousSearch(found)
    \/ \E fin_ok, cash_ok \in BOOLEAN : Fetch(fin_ok, cash_ok)
    \/ OpinionIssue
    \/ \E outcome \in Outcomes(oddLeft) : OpinionReturn(outcome)
    \/ RebuttalIssue
    \/ \E outcome \in Outcomes(oddLeft) : RebuttalReturn(outcome)
    \/ ConsensusIssue
    \/ \E outcome \in Outcomes(oddLeft) : ConsensusReturn(outcome)
    \/ AutonomousSave
    \/ FullAnalysisReturn
    \/ FraudQueryReturn

SpecQuery == InitQuery /\ [][NextQuery]_vars

\* C11: whatever the text, the session and the cache, process_user_query
\* returns a dict with a type and a message; no exception leaves it on any of
\* the nine paths.
C11_EveryQueryGetsAStructuredReply ==
    session.response # None =>
        /\ ~session.response.raised
        /\ session.response.type # ""
        /\ session.response.message # <<>>

\* C13: when a full-analysis request for the active company has returned
\* success, the cache holds a context under the name of that company, so that
\* the next query about it is served from the cache.
C13_AnalysisCachedUnderActiveCompany ==
    (pc = "idle" /\ session.response # None /\ session.response.type = "a2a_analysis_complete")
        => session.current_company \in DOMAIN conversation_memory

\* ------------------------------------------------------- the rebuttal round
\* the response a persona gave in the opinion round of a topic
OpinionRoundResponse(topic, agent_key) ==
    calls[CHOOSE i \in CallsOf(topic, "opinion", agent_key) : TRUE].text

\* C21: the rebuttal prompt issued to a persona shows one excerpt for every
\* other persona and none for itself, and each excerpt is cut from the response
\* that persona gave in the opinion round, never from a response it gave in the
\* rebuttal round.
C21_RebuttalShowsOpinionRound ==
    (inflight.agent # "none" /\ inflight.prompt.kind = "rebuttal") =>
        LET shown == inflight.prompt.shown IN
        /\ {shown[k].speaker : k \in 1..Len(shown)} = AgentSet \ {inflight.agent}
        /\ \A k \in 1..Len(shown) :
              shown[k].text =
                  Prefix(OpinionRoundResponse(inflight.prompt.topic, shown[k].speaker),
                         RebuttalExcerptLen) \o Ellipsis

\* ------------------------------------------------------- the aggregation
\* the persona requests of a topic addressed to one persona, in issue order
PersonaCalls(topic, agent_key) ==
    {i \in 1..Len(calls) : calls[i].topic = topic /\ calls[i].agent = agent_key
                           /\ calls[i].phase # "consensus"}

\* the response of the last of them
LastResponse(topic, agent_key) ==
    calls[CHOOSE i \in PersonaCalls(topic, agent_key) :
             \A j \in PersonaCalls(topic, agent_key) : j <= i].text

\* C22: a topic issues at most one aggregation request, and exactly one by the
\* time its run is finished; the request goes to the coordinator, and its
\* prompt shows, in roster order, one excerpt for every persona, cut from the
\* last response that persona gave in the topic, an error marker included.
C22_OneAggregationOverEveryPersona ==
    /\ \A t \in Topics :
          /\ Cardinality(ConsensusCalls(t)) <= 1
          /\ pc = "done" => Cardinality(ConsensusCalls(t)) = 1
          /\ \A j \in ConsensusCalls(t) : calls[j].agent = "coordinator"
    /\ (inflight.agent # "none" /\ inflight.prompt.kind = "consensus") =>
          LET shown == inflight.prompt.shown IN
          /\ inflight.agent = "coordinator"
          /\ Len(shown) = Len(Agents)
          /\ \A k \in 1..Len(shown) :
                /\ shown[k].speaker = Agents[k]
                /\ shown[k].text =
                       Prefix(LastResponse(inflight.prompt.topic, Agents[k]),
                              ConsensusExcerptLen) \o Ellipsis

\* the aggregation of the ratio topic is in flight, and a persona whose
\* opinion-round answer was a text is shown with the error marker it gave in
\* the rebuttal round
C22_Witness ==
    /\ inflight.agent = "coordinator"
    /\ inflight.prompt.kind = "consensus"
    /\ inflight.prompt.topic = "ratio"
    /\ \E k \in 1..Len(inflight.prompt.shown) :
          /\ inflight.prompt.shown[k].text = ApiErrorText \o Ellipsis
          /\ ~IsErrorMarker(OpinionRoundResponse("ratio", inflight.prompt.shown[k].speaker))

\* ------------------------------------------------------ the deliberation log
\* C23: every request to the inference backend appends exactly one entry to
\* the deliberation log: after any sequence of operations the log has as many
\* entries as requests were made, the aggregation requests included.
C23_OneLogEntryPerBackendCall ==
    Len(discussion_log) = Len(calls)

\* ------------------------------------------------------ exact before partial
\* the fields one of whose synonyms is the label itself
ExactFields(label) ==
    {target_accounts[k].key : k \in {j \in 1..Len(target_accounts) : target_accounts[j].name = label}}

\* the fields one of whose synonyms contains the label or lies in it
PartialFields(label) ==
    {target_accounts[k].key :
        k \in {j \in 1..Len(target_accounts) :
                  /\ target_accounts[j].name # label
                  /\ \/ Contains(label, target_accounts[j].name)
                     \/ Contains(target_accounts[j].name, label)}}

\* the fields whose binding differs between two records
Rebound(before, after) ==
    {f \in (DOMAIN before) \cup (DOMAIN after) :
        f \notin DOMAIN before \/ f \notin DOMAIN after \/ before[f] # after[f]}

\* C24: taking the record as it stood before the last relevant item was
\* scanned, an item whose cleaned label equals a synonym of a field and whose
\* amount is not 0 binds that field to the amount and changes no other field;
\* an item with no exact match changes at most one field, one it matches
\* partially and that was unbound or zero before.
C24_ExactMatchBeforePartial ==
    (calc.fn = "parse" /\ calc.done) =>
        LET items == SelectSeq(calc.args, LAMBDA item : item.sj_nm \in RelevantSections)
            n == Len(items)
        IN n > 0 =>
           LET before == parse_financial_statements(SubSeq(items, 1, n - 1))
               after == calc.value.financial_data
               label == CleanLabel(items[n].account_nm)
               amount == parse_amount(items[n].thstrm_amount)
           IN IF amount # 0 /\ ExactFields(label) # {}
              THEN \E field \in ExactFields(label) : after = DictSet(before, field, amount)
              ELSE \A field \in Rebound(before, after) :
                      /\ field \in PartialFields(label)
                      /\ Get(before, field, 0) = 0
                      /\ after = DictSet(before, field, amount)

\* ------------------------------------------------------ conversation history
\* C25: every call of process_user_query appends exactly one turn to the
\* conversation history and leaves the earlier turns as they were, and the
\* company recorded in the new turn is the company resolved for the utterance:
\* the one passed, else the one extracted from the text, else the active one,
\* which is the active company when the call has resolved it.
C25_TurnRecordsResolvedCompany ==
    [][session.history' # session.history =>
          /\ Len(session.history') = Len(session.history) + 1
          /\ SubSeq(session.history', 1, Len(session.history)) = session.history
          /\ session.history'[Len(session.history')].user_input = session.user_input'
          /\ session.history'[Len(session.history')].company = session.current_company']_vars

\* ------------------------------------------------------ the final grade
\* the text the aggregation request of a topic returned
ConsensusText(topic) == calls[CHOOSE j \in ConsensusCalls(topic) : TRUE].text

\* C26: in a finished run the grade of the final opinion is the grade
\* extracted from the consensus of the ratio-grading topic, the one reported as
\* investment_grade; it is a function of that text alone, whatever the backend
\* returned during the final-opinion deliberation.
C26_FinalGradeIsRatioGrade ==
    pc = "done" =>
        /\ result.data.final_a2a_opinion.grade = extract_grade_from_consensus(ConsensusText("ratio"))
        /\ result.data.final_a2a_opinion.grade = result.data.ratios.A2A_grade
        /\ result.data.final_a2a_opinion.grade = result.investment_grade

\* a finished run whose final-opinion consensus names grade C, after an error
\* marker among the final opinions, while the ratio topic gave grade A
C26_Witness ==
    /\ pc = "done"
    /\ ConsensusText("final") = <<"G", ":", "C">>
    /\ \E i \in TopicFailures("final") : calls[i].phase = "opinion"
    /\ result.data.final_a2a_opinion.grade = "A"

\* ================================================ the log under two threads
\* real_analysis_thread runs the opinion loop of the ratio topic while
\* response_thread, started by send_message for a fraud query on a cached
\* company, runs the opinion loop of the fraud topic on the same engine.
\* _call_agent_with_persona appends its entry, blocks in the request, and
\* then writes the response into self.discussion_log[-1]; another thread can
\* run while it is blocked.
LogThreads == {"analysis", "chat"}
ThreadTopic(t) == IF t = "analysis" THEN "ratio" ELSE "fraud"
NotStarted == [pc |-> "idle", idx |-> 0, call |-> 0]

InitLog ==
    /\ InitEngine
    /\ lastOp = NoOp
    /\ got = None
    /\ th = [t \in LogThreads |-> NotStarted]
    /\ gui = NoGui
    /\ extractor = NoText
    /\ session = NoSession
    /\ calc = NoCalc

\* the thread reaches the loop  for agent_key, agent in self.agents.items()
ThStartDiscussion(t) ==
    /\ th[t].pc = "idle"
    /\ th' = [th EXCEPT ![t] = [pc |-> "issue", idx |-> 1, call |-> 0]]
    /\ UNCHANGED <<engineVars, cacheVars, now, lastOp, got, gui, extractor, session, calc>>

\* _call_agent_with_persona up to the blocking request
ThPersonaIssue(t) ==
    /\ th[t].pc = "issue"
    /\ LET agent_key == Agents[th[t].idx]
           prompt == [kind |-> "opinion", topic |-> ThreadTopic(t)]
       IN /\ discussion_log' = LogAppend(discussion_log, agent_key, prompt)
          /\ calls' = Append(calls, [topic |-> ThreadTopic(t), phase |-> "opinion",
                                     agent |-> agent_key, status |-> "inflight", text |-> <<>>])
          /\ th' = [th EXCEPT ![t].pc = "wait", ![t].call = Len(calls) + 1]
    /\ UNCHANGED <<pc, caller, run, disc, inflight, result, oddLeft, cacheVars, now,
                   lastOp, got, gui, extractor, session, calc>>

\* the request returns: the response goes into the last entry of the log
ThPersonaReturn(t, outcome) ==
    /\ th[t].pc = "wait"
    /\ LET r == call_ollama(Agents[th[t].idx], outcome) IN
          /\ discussion_log' = LogUpdate(discussion_log, r.text)
          /\ calls' = [calls EXCEPT ![th[t].call].status = IF outcome.kind = "ok" THEN "ok" ELSE "failed",
                                    ![th[t].call].text = r.text]
    /\ oddLeft' = oddLeft - Cost(outcome)
    /\ th' = [th EXCEPT ![t].pc = IF th[t].idx < Len(Agents) THEN "issue" ELSE "returned",
                        ![t].idx = IF th[t].idx < Len(Agents) THEN @ + 1 ELSE @,
                        ![t].call = 0]
    /\ UNCHANGED <<pc, caller, run, disc, inflight, result, cacheVars, now,
                   lastOp, got, gui, extractor, session, calc>>

NextLog ==
    \/ \E t \in LogThreads : ThStartDiscussion(t)
    \/ \E t \in LogThreads : ThPersonaIssue(t)
    \/ \E t \in LogThreads, outcome \in Outcomes(oddLeft) : ThPersonaReturn(t, outcome)

SpecLog == InitLog /\ [][NextLog]_vars

\* C27: when the persona calls of the two threads have all returned, every
\* entry of the deliberation log holds the response to its own prompt: none
\* keeps the placeholder written when it was appended, and none holds the
\* response to another call.
C27_EveryEntryHoldsItsOwnResponse ==
    (\A t \in LogThreads : th[t].pc = "returned") =>
        /\ Len(discussion_log) = Len(calls)
        /\ \A i \in 1..Len(discussion_log) :
              /\ discussion_log[i].speaker = calls[i].agent
              /\ discussion_log[i].response # Pending
              /\ discussion_log[i].response = Prefix(calls[i].text, LogResponseLen) \o Ellipsis

\* ------------------------------------------------------ failed runs and the cache
\* the result of the run is an error result
IsErrorResult(res) == "error" \in DOMAIN res

\* C28: a full-analysis run that returns an error result leaves the cache as
\* it was before the run.  Step by step: the step that starts a run and every
\* later step of it leave the cache alone, except the save step, which is the
\* last step of a run and returns the success result; a step that ends a run
\* with an error result changes no entry and never comes after the save step;
\* a request that is refused before a run starts changes no entry either.
C28_FailedRunLeavesCacheUntouched ==
    [][/\ (caller' = "handler" /\ ~UNCHANGED cacheVars)
             => (pc = "save" /\ pc' = "done" /\ ~IsErrorResult(result'))
       /\ (caller' = "handler" /\ pc' = "error" /\ pc # "error")
             => (UNCHANGED cacheVars /\ IsErrorResult(result') /\ pc \notin {"save", "done"})
       /\ (session'.response # None /\ session'.response.type = "analysis_error")
             => UNCHANGED cacheVars]_vars

\* a full analysis asked for in a session whose cache holds an earlier
\* analysis has ended with an error result
C28_Witness ==
    /\ caller = "handler"
    /\ pc = "error"
    /\ IsErrorResult(result)
    /\ run.company_name \in DOMAIN conversation_memory

\* ------------------------------------------------------ queries without context
\* the handlers that answer from a cached analysis
ContextQueryTypes == {"ratio_query", "fraud_query", "comparison_query",
                      "visualization_query", "explanation_query", "report_query"}

\* C29: a ratio, fraud, comparison, visualization, explanation or report query
\* returns an error result when no company is active and an analysis-needed
\* result when nothing is cached for the active company; in both cases no
\* backend request is made and the cache and the deliberation log stay as they
\* were.  The cache is written by no query other than a full analysis.
C29_QueriesWithoutContextChangeNothing ==
    [][/\ (session'.history # session.history /\ session'.query_type \in ContextQueryTypes
             /\ get_analysis_context(conversation_memory, session'.current_company) = None)
          => /\ session'.response # None
             /\ ~session'.response.raised
             /\ session'.response.type =
                   (IF session'.current_company = NoCompany THEN "error" ELSE "analysis_needed")
             /\ UNCHANGED <<calls, inflight, oddLeft, pc, cacheVars, discussion_log>>
       /\ ~UNCHANGED cacheVars => (caller = "handler" /\ session.query_type = "full_analysis")]_vars

\* a report was asked for under a company name that has no cached analysis,
\* in a session whose cache and log hold the analysis of another name
C29_Witness ==
    /\ session.query_type = "report_query"
    /\ session.response # None
    /\ session.response.type = "analysis_needed"
    /\ session.current_company = LongCompany
    /\ KnownCompany \in DOMAIN conversation_memory
    /\ discussion_log # <<>>

\* ------------------------------------------------------ scores and risk levels
\* how many of the three penalty conditions hold
PenaltyCount(v) ==
    (IF LessThanHalf(v.cash_flow_to_net_income) THEN 1 ELSE 0)
    + (IF GreaterThan(v.receivables_to_revenue, 25) THEN 1 ELSE 0)
    + (IF v.positive_income_negative_cashflow THEN 1 ELSE 0)

\* C30: positive income with negative operating cash flow implies
\* cash_flow_to_net_income < 0.5, so the risk score is one of 0, 25, 30, 55, 80
\* and never 50; the risk level is HIGH exactly when the three penalty
\* conditions hold, MEDIUM exactly when the score is 55, LOW exactly when it
\* is 25 or 30, and MINIMAL exactly when no condition holds.
C30_ScoresAndLevels ==
    (calc.fn = "fraud" /\ calc.done) =>
        LET v == calc.value IN
        /\ v.positive_income_negative_cashflow => LessThanHalf(v.cash_flow_to_net_income)
        /\ v.risk_score \in {0, 25, 30, 55, 80}
        /\ (v.risk_level = "HIGH") <=> AllPenalties(v)
        /\ (v.risk_level = "MEDIUM") <=> (v.risk_score = 55)
        /\ (v.risk_level = "LOW") <=> (v.risk_score \in {25, 30})
        /\ (v.risk_level = "MINIMAL") <=> (PenaltyCount(v) = 0)
        /\ v.risk_level \in {"HIGH", "MEDIUM", "LOW", "MINIMAL"}

\* the score 55 made of the penalties for the cash-flow ratio and for positive
\* income with negative cash flow, the receivables being low
C30_Witness ==
    /\ calc.fn = "fraud"
    /\ calc.done
    /\ calc.value.positive_income_negative_cashflow
    /\ ~GreaterThan(calc.value.receivables_to_revenue, 25)
    /\ calc.value.risk_score = 55
    /\ calc.value.risk_level = "MEDIUM"
====
